---- MODULE Spec2Model ----
(***************************************************************************)
(* Model of the astrology bot's message pipeline:                          *)
(*   - AstrologyWorker.process_request  (app/workers/astrology_worker.py)  *)
(*   - TelegramService.keep_typing / send_message / save_chat_to_db /      *)
(*     save_chat_to_redis               (app/services/telegram_service.py) *)
(*   - handle_message                   (main.py)                          *)
(*   - QueueService.start_consumer      (app/services/queue_service.py)    *)
(*   - RudieAgent.generate_response     (app/agents/rudie_agent.py)        *)
(*                                                                         *)
(* Texts are sequences of chunks.  A chunk is either one character, one of *)
(* the two deliberation delimiters, a run of the letter x of a stated      *)
(* length ("x19" is nineteen of them), or one of the program's fixed       *)
(* messages (see ChunkLen).                                                *)
(***************************************************************************)
EXTENDS Integers, Sequences, FiniteSets, TLC

VARIABLES
    pc,            \* position of the running handler (process_request / handle_message)
    request_data,  \* the work item handed to process_request
    stop_typing,   \* asyncio.Event stop_typing
    typing_task,   \* state of the keep_typing task
    emissions,     \* number of typing signals emitted by the current keep_typing task
    memory_data,   \* local memory_data of the handler
    response,      \* local response of the handler
    trace,         \* calls made by the current turn, in order
    sent,          \* messages that reached the conversation, in order
    chat_log,      \* durable chat_history table, in order of insertion
    redis,         \* redis list chat_history:<user_id>
    raised,        \* TRUE iff the handler let an exception escape to its caller
    update,        \* the inbound event handed to handle_message
    profile,       \* the users row of the sender
    start,         \* chat_log, redis and the work item as they were when the handler was called
    store_task,    \* state of the detached add_memory_safe task
    \* QueueService
    broker,        \* messages ready in the durable queue, oldest first
    in_flight,     \* the message delivered to the consumer and not settled yet
    settled,       \* how each delivery ended, in order
    published,     \* number of messages published so far
    is_processing, \* QueueService.is_processing
    q_pc,          \* position of start_consumer
    \* RudieAgent.generate_response and the delivery of its result
    g_pc,            \* position of generate_response
    enable_thinking, \* settings.enable_thinking
    is_gpt_oss,      \* "gpt-oss" in settings.ollama_model.lower()
    response_text,   \* local response_text
    cleaned,         \* response_text as it was when the length check was made
    model_calls,     \* model calls made, in order
    gen_failures,    \* the steps of generate_response that raised, in order
    gen_raised,      \* TRUE iff generate_response let an exception escape
    reply_text,      \* the text process_request hands to send_message
    \* The birth details wizard (ConversationHandler birth_details)
    z_stage,         \* conversation state of the user
    user_data,       \* context.user_data
    z_profile0,      \* the users row as it was when the wizard was started
    z_last,          \* the last wizard handler call: its input, what it sent, how it ended
    \* AstrologyTools
    t_service,       \* class attribute AstrologyTools._astrology_service
    t_birth_data,    \* class attribute AstrologyTools._birth_data (<<>> for None)
    t_last,          \* the last tool call: the lookup, what the API did, what was returned
    t_requests,      \* per generate_response call: where it is and the birth data it was handed
    t_lookup,        \* the last lookup of a call in flight: whose it was, the birth data it sent
    \* validate_birth_data applied to a triple
    v_args,          \* the arguments (date_str, time_str, place_str)
    v_result         \* what validate_birth_data returned for them

turn_vars == <<pc, request_data, stop_typing, typing_task, emissions, memory_data,
               response, trace, sent, chat_log, redis, raised, update, profile, start,
               store_task>>

\* turn_vars without profile.
turn_rest == <<pc, request_data, stop_typing, typing_task, emissions, memory_data,
               response, trace, sent, chat_log, redis, raised, update, start, store_task>>

wizard_vars == <<z_stage, user_data, z_profile0, z_last>>

tool_vars == <<t_service, t_birth_data, t_last, t_requests, t_lookup>>

check_vars == <<v_args, v_result>>

queue_vars == <<broker, in_flight, settled, published, is_processing, q_pc>>

text_vars == <<g_pc, enable_thinking, is_gpt_oss, response_text, cleaned, model_calls,
               gen_failures, gen_raised, reply_text>>

vars == <<turn_vars, queue_vars, text_vars, wizard_vars, tool_vars, check_vars>>

----------------------------------------------------------------------------
(* Bounds *)

MaxEmissions == 2
MaxPublished == 3
MaxChunks == 3
MaxSaves == 4
MaxRequests == 2

----------------------------------------------------------------------------
(* Texts *)

OPEN  == "<think>"
CLOSE == "</think>"

\* Number of characters of a chunk.
ChunkLen(c) ==
    CASE c = OPEN  -> 7
      [] c = CLOSE -> 8
      [] c = "x19" -> 19
      [] c = "x30" -> 30
      [] c = "x399" -> 399
      [] c = "FALLBACK" -> 194
      [] c = "GEN_APOLOGY" -> 105
      [] c = "WORKER_APOLOGY" -> 67
      [] c = "DISPATCH_APOLOGY" -> 48
      [] c = "TOO_MUCH_INFO" -> 82
      [] OTHER -> 1

RECURSIVE TextLen(_)
TextLen(s) == IF s = <<>> THEN 0 ELSE ChunkLen(Head(s)) + TextLen(Tail(s))

IsSpace(c) == c \in {" ", "\n"}

\* str.lower() on one chunk (only the capitals the model's messages use).
LowerChunk(c) ==
    CASE c = "T" -> "t"
      [] c = "E" -> "e"
      [] c = "S" -> "s"
      [] OTHER -> c

Lower(s) == [i \in 1..Len(s) |-> LowerChunk(s[i])]

\* Python's `sub in s` for texts made of one-character chunks.
Contains(s, sub) ==
    \E i \in 1..(Len(s) - Len(sub) + 1) : SubSeq(s, i, i + Len(sub) - 1) = sub

\* str.strip(): leading and trailing whitespace removed.
RECURSIVE LStrip(_)
LStrip(s) == IF s # <<>> /\ IsSpace(Head(s)) THEN LStrip(Tail(s)) ELSE s

RECURSIVE RStrip(_)
RStrip(s) ==
    IF s # <<>> /\ IsSpace(s[Len(s)]) THEN RStrip(SubSeq(s, 1, Len(s) - 1)) ELSE s

Strip(s) == RStrip(LStrip(s))

\* re.sub(r'<think>.*?</think>\s*', '', s, flags=re.DOTALL): scanning from the
\* left, an opening delimiter that has a closing delimiter somewhere after it is
\* removed together with everything up to the first such closing delimiter and
\* the whitespace that follows; everything else is kept.
FirstClose(s) == CHOOSE j \in 2..Len(s) : s[j] = CLOSE /\ \A k \in 2..(j-1) : s[k] # CLOSE

RECURSIVE RemoveThinkBlocks(_)
RemoveThinkBlocks(s) ==
    IF s = <<>> THEN <<>>
    ELSE IF Head(s) = OPEN /\ \E j \in 2..Len(s) : s[j] = CLOSE
         THEN RemoveThinkBlocks(LStrip(SubSeq(s, FirstClose(s) + 1, Len(s))))
         ELSE <<Head(s)>> \o RemoveThinkBlocks(Tail(s))

HasDelimiter(s) == \E i \in 1..Len(s) : s[i] \in {OPEN, CLOSE}

----------------------------------------------------------------------------
(* Work items and the values the gateways can hand back *)

TopKeys == {"request_id", "user_id", "chat_id", "message", "user_context"}
CtxKeys == {"name", "date_of_birth", "time_of_birth", "place_of_birth"}

Q_HI     == <<"h", "i">>
Q_TEST   == <<"T", "e", "s", "t">>
Q_LATEST == <<"l", "a", "t", "e", "s", "t">>
Messages == {Q_HI, Q_TEST, Q_LATEST}

\* A work item: the top-level keys it has, whether user_context is JSON null,
\* the keys user_context has, the value under user_context['memories']
\* (<<>> when the key is not there, <<digest>> when it is) and the message text.
WorkItems ==
    { [keys |-> k, ctx_null |-> n, ctx |-> c, memories |-> <<>>, message |-> m] :
        k \in SUBSET TopKeys, n \in BOOLEAN, c \in SUBSET CtxKeys, m \in Messages }

\* Items as json.loads can produce them: without the user_context key there is
\* no nested object, and a null user_context has no keys.
WellFormedItem(it) ==
    /\ ("user_context" \notin it.keys => ~it.ctx_null /\ it.ctx = {})
    /\ (it.ctx_null => it.ctx = {})

\* The item of a run that handles no work item, and an inbound event that
\* carries no message (update.message is None).
NoItem   == [keys |-> {}, ctx_null |-> FALSE, ctx |-> {}, memories |-> <<>>, message |-> <<>>]
NoUpdate == [has_message |-> FALSE, text |-> <<>>]

\* What memory_service.get_memories can hand to its caller.
MemResults ==
    { [kind |-> "raise", data |-> <<>>],
      [kind |-> "none", data |-> <<>>],
      [kind |-> "list", data |-> <<"m">>],
      [kind |-> "str", data |-> <<"m">>],
      [kind |-> "empty_dict", data |-> <<>>],
      [kind |-> "dict_no_data", data |-> <<>>],
      [kind |-> "dict", data |-> <<>>],
      [kind |-> "dict", data |-> <<"m">>] }

\* What rudie_agent.generate_response can hand to its caller.
REPLY_PLAIN    == <<"x30", ".">>
REPLY_BLOCK    == <<OPEN, "x19", CLOSE, " ", "x30", ".">>
REPLY_UNCLOSED == <<"x30", ".", " ", OPEN, "x19">>
GenReturns == {REPLY_PLAIN, REPLY_BLOCK, REPLY_UNCLOSED, <<"FALLBACK">>}

WORKER_APOLOGY   == <<"WORKER_APOLOGY">>
DISPATCH_APOLOGY == <<"DISPATCH_APOLOGY">>
TOO_MUCH_INFO    == <<"TOO_MUCH_INFO">>

\* Outcomes of the two bot.send_message attempts inside send_message.
SendOutcomes == {"ok", "fail_then_ok", "fail_then_fail"}

redis_chat_history_limit == 2

----------------------------------------------------------------------------
(* Helpers translated from the handlers *)

Log(ev) == trace' = Append(trace, ev)

Count(ev) == Cardinality({i \in 1..Len(trace) : trace[i] = ev})

Happened(ev) == \E i \in 1..Len(trace) : trace[i] = ev

\* required_fields / missing_fields of process_request.
\* Faulty variant: request_id demanded as well.
RequiredFieldsWithRequestId ==
    {"request_id", "user_id", "chat_id", "message", "user_context"}

RequiredFields == {"user_id", "chat_id", "message", "user_context"}
MissingFields(it) == RequiredFields \ it.keys

\* required_context / missing_context of process_request.
RequiredContext == {"name", "date_of_birth", "time_of_birth", "place_of_birth"}
\* Faulty variant: the nested fields are not checked.
MissingContextUnchecked(it) == {}

MissingContext(it) == RequiredContext \ it.ctx

\* 'test' in text.lower() or 'batch_test' in text.lower()
\* Faulty variant: the comparison is made without lower().
IsTestMessageCaseSensitive(text) ==
    \/ Contains(text, <<"t", "e", "s", "t">>)
    \/ Contains(text, <<"b", "a", "t", "c", "h", "_", "t", "e", "s", "t">>)

IsTestMessage(text) ==
    \/ Contains(Lower(text), <<"t", "e", "s", "t">>)
    \/ Contains(Lower(text), <<"b", "a", "t", "c", "h", "_", "t", "e", "s", "t">>)

\* memory_data as computed from the result of get_memories.
\* Faulty variant: the isinstance check is left out.
MemoryDataUnvalidated(result) ==
    IF result.kind \in {"dict", "str", "list"} THEN result.data ELSE <<>>

MemoryData(result) ==
    IF result.kind \in {"dict", "dict_no_data"}
    THEN (IF result.kind = "dict" THEN result.data ELSE <<>>)
    ELSE <<>>

\* response = re.sub(r'<think>.*?</think>\s*', '', response); response.strip()
CleanResponse(text) == Strip(RemoveThinkBlocks(text))

\* `await typing_task`: the caller resumes once the task has finished.
\* Faulty variant: the task is not awaited.
AwaitTaskNoWait(task) == TRUE

AwaitTask(task) == task = "done"

\* send_message: what reaches the conversation, and whether it raises.  Every
\* text of the model is shorter than TELEGRAM_MAX_LENGTH (4096), so the
\* truncation of an over-long text never applies.
Delivered(text, outcome) ==
    CASE outcome = "ok" -> <<text>>
      [] outcome = "fail_then_ok" -> <<TOO_MUCH_INFO>>
      [] OTHER -> <<>>

SendRaises(outcome) == outcome # "ok"

\* save_chat_to_db: one row added and committed, or the failure logged.
\* Faulty variant: the row is never committed.
SaveChatToDbNoCommit(log, message_type, message, ok) == log

SaveChatToDb(log, message_type, message, ok) ==
    IF ok THEN Append(log, [role |-> message_type, text |-> message]) ELSE log

\* save_chat_to_redis.
Pairs(history) ==
    [i \in 1..(Len(history) \div 2) |-> <<history[2 * i - 1], history[2 * i]>>]

WithMessage(pairs, message_type, message) ==
    IF message_type = "user" THEN Append(pairs, <<message, <<>>>>)
    ELSE IF message_type = "bot" /\ pairs # <<>>
         THEN [pairs EXCEPT ![Len(pairs)] = <<pairs[Len(pairs)][1], message>>]
         ELSE pairs

\* pairs[-limit:]
LastPairs(pairs, limit) ==
    IF limit = 0 \/ limit >= Len(pairs) THEN pairs
    ELSE SubSeq(pairs, Len(pairs) - limit + 1, Len(pairs))

RECURSIVE Flatten(_)
Flatten(pairs) ==
    IF pairs = <<>> THEN <<>>
    ELSE <<Head(pairs)[1]>>
         \o (IF Head(pairs)[2] # <<>> THEN <<Head(pairs)[2]>> ELSE <<>>)
         \o Flatten(Tail(pairs))

SaveChatToRedis(history, message_type, message, ok) ==
    IF ok
    THEN Flatten(LastPairs(WithMessage(Pairs(history), message_type, message),
                           redis_chat_history_limit))
    ELSE history

----------------------------------------------------------------------------
(* add_memory_safe, run as a detached task *)

\* How the task can end: add_memory returned the service's answer, add_memory
\* caught a transport error and returned an error status, or add_memory raised
\* and add_memory_safe logged it.
StoreOutcomes == {"stored", "error_status", "logged_error"}

\* The task runs to its end; nothing awaits it.
S_Finish ==
    /\ store_task = "running"
    /\ store_task' \in StoreOutcomes
    /\ UNCHANGED <<pc, request_data, stop_typing, typing_task, emissions, memory_data,
                   response, trace, sent, chat_log, redis, raised, update, profile, start>>
    /\ UNCHANGED <<queue_vars, text_vars, wizard_vars, tool_vars, check_vars>>

add_memory_safe == S_Finish

----------------------------------------------------------------------------
(* TelegramService.keep_typing, run as a task beside the handler *)

T_Emit ==
    /\ UNCHANGED <<start, store_task, queue_vars, text_vars, wizard_vars, tool_vars, check_vars>>
    /\ typing_task \in {"created", "loop"}
    /\ ~stop_typing
    /\ emissions < MaxEmissions
    /\ typing_task' = "emitting"
    /\ emissions' = emissions + 1
    /\ UNCHANGED <<pc, request_data, stop_typing, memory_data, response, trace,
                   sent, chat_log, redis, raised, update, profile>>

\* send_typing returns: send_chat_action went through, or it raised and the
\* error was logged inside send_typing.
\* Faulty variant: what send_chat_action raises leaves send_typing and ends
\* the coroutine in its outer handler.
T_EmitDoneUnguarded ==
    /\ UNCHANGED <<start, store_task, queue_vars, text_vars, wizard_vars, tool_vars, check_vars>>
    /\ typing_task = "emitting"
    /\ \E ok \in BOOLEAN : typing_task' = IF ok THEN "waiting" ELSE "done"
    /\ UNCHANGED <<pc, request_data, stop_typing, emissions, memory_data, response,
                   trace, sent, chat_log, redis, raised, update, profile>>

T_EmitDone ==
    /\ UNCHANGED <<start, store_task, queue_vars, text_vars, wizard_vars, tool_vars, check_vars>>
    /\ typing_task = "emitting"
    /\ \E ok \in BOOLEAN : typing_task' = IF ok THEN "waiting" ELSE "waiting_after_error"
    /\ UNCHANGED <<pc, request_data, stop_typing, emissions, memory_data, response,
                   trace, sent, chat_log, redis, raised, update, profile>>

\* wait_for(stop_event.wait(), timeout=4.0) times out.
T_Timeout ==
    /\ UNCHANGED <<start, store_task, queue_vars, text_vars, wizard_vars, tool_vars, check_vars>>
    /\ typing_task \in {"waiting", "waiting_after_error"}
    /\ ~stop_typing
    /\ typing_task' = "loop"
    /\ UNCHANGED <<pc, request_data, stop_typing, emissions, memory_data, response,
                   trace, sent, chat_log, redis, raised, update, profile>>

\* The loop sees the event set and the coroutine ends.
\* Faulty variant: the wait between emissions is not woken by the event and
\* its timeout starts no new round once the event is set.
T_ExitMissesWakeup ==
    /\ UNCHANGED <<start, store_task, queue_vars, text_vars, wizard_vars, tool_vars, check_vars>>
    /\ typing_task \in {"created", "loop"}
    /\ stop_typing
    /\ typing_task' = "done"
    /\ UNCHANGED <<pc, request_data, stop_typing, emissions, memory_data, response,
                   trace, sent, chat_log, redis, raised, update, profile>>

T_Exit ==
    /\ UNCHANGED <<start, store_task, queue_vars, text_vars, wizard_vars, tool_vars, check_vars>>
    /\ typing_task \in {"created", "loop", "waiting", "waiting_after_error"}
    /\ stop_typing
    /\ typing_task' = "done"
    /\ UNCHANGED <<pc, request_data, stop_typing, emissions, memory_data, response,
                   trace, sent, chat_log, redis, raised, update, profile>>

keep_typing == T_Emit \/ T_EmitDone \/ T_Timeout \/ T_Exit

----------------------------------------------------------------------------
(* AstrologyWorker.process_request *)

W_UNCHANGED_STORES == UNCHANGED <<sent, chat_log, redis, update, profile>>

\* Validation, the test-traffic filter and the start of the typing task.
W_Validate ==
    /\ UNCHANGED <<start, store_task, queue_vars, text_vars, wizard_vars, tool_vars, check_vars>>
    /\ pc = "w_start"
    /\ IF MissingFields(request_data) # {}
       THEN pc' = "w_ret" /\ UNCHANGED <<stop_typing, typing_task, trace>>
       ELSE IF request_data.ctx_null
       THEN pc' = "w_outer" /\ UNCHANGED <<stop_typing, typing_task, trace>>
       ELSE IF MissingContext(request_data) # {}
       THEN pc' = "w_ret" /\ UNCHANGED <<stop_typing, typing_task, trace>>
       ELSE IF IsTestMessage(request_data.message)
       THEN pc' = "w_ret" /\ UNCHANGED <<stop_typing, typing_task, trace>>
       ELSE /\ pc' = "w_mem"
            /\ stop_typing' = FALSE
            /\ typing_task' = "created"
            /\ Log("typing_start")
    /\ UNCHANGED <<request_data, emissions, memory_data, response, raised, update, profile>>
    /\ W_UNCHANGED_STORES

\* memories_result = await get_memories(...), guarded by its own try/except.
W_GetMemories ==
    /\ UNCHANGED <<start, store_task, queue_vars, text_vars, wizard_vars, tool_vars, check_vars>>
    /\ pc = "w_mem"
    /\ \E result \in MemResults :
         /\ memory_data' = MemoryData(result)
         /\ Log(IF result.kind = "raise" THEN "mem_raise"
                ELSE IF result.kind \in {"dict", "dict_no_data"} THEN "mem_ok"
                ELSE "mem_invalid")
    /\ pc' = "w_gen"
    /\ UNCHANGED <<request_data, stop_typing, typing_task, emissions, response, raised, update, profile>>
    /\ W_UNCHANGED_STORES

\* user_context['memories'] = memory_data; generate_response; the clean-up of
\* the response; stop_typing.set().
W_Generate ==
    /\ UNCHANGED <<start, store_task, queue_vars, text_vars, wizard_vars, tool_vars, check_vars>>
    /\ pc = "w_gen"
    /\ request_data' = [request_data EXCEPT !.memories = <<memory_data>>]
    /\ \/ \E text \in GenReturns :
            /\ response' = CleanResponse(text)
            /\ stop_typing' = TRUE
            /\ Log("gen_ok")
            /\ pc' = "w_join"
       \/ /\ Log("gen_raise")
          /\ pc' = "w_exc"
          /\ UNCHANGED <<response, stop_typing>>
    /\ UNCHANGED <<typing_task, emissions, memory_data, raised, update, profile>>
    /\ W_UNCHANGED_STORES

\* if typing_task: await typing_task
\* Faulty variant: the task is not awaited before the reply goes out.
W_JoinSkipped ==
    /\ UNCHANGED <<start, store_task, queue_vars, text_vars, wizard_vars, tool_vars, check_vars>>
    /\ pc = "w_join"
    /\ pc' = "w_send"
    /\ UNCHANGED <<request_data, stop_typing, typing_task, emissions, memory_data,
                   response, trace, raised, update, profile>>
    /\ W_UNCHANGED_STORES

W_Join ==
    /\ UNCHANGED <<start, store_task, queue_vars, text_vars, wizard_vars, tool_vars, check_vars>>
    /\ pc = "w_join"
    /\ AwaitTask(typing_task)
    /\ pc' = "w_send"
    /\ UNCHANGED <<request_data, stop_typing, typing_task, emissions, memory_data,
                   response, trace, raised, update, profile>>
    /\ W_UNCHANGED_STORES

\* await send_message(chat_id, response)
W_SendReply ==
    /\ UNCHANGED <<start, store_task, queue_vars, text_vars, wizard_vars, tool_vars, check_vars>>
    /\ pc = "w_send"
    /\ \E outcome \in SendOutcomes :
         /\ sent' = sent \o Delivered(response, outcome)
         /\ Log(IF SendRaises(outcome) THEN "send_reply_raise" ELSE "send_reply_ok")
         /\ pc' = IF SendRaises(outcome) THEN "w_exc" ELSE "w_session"
    /\ UNCHANGED <<request_data, stop_typing, typing_task, emissions, memory_data,
                   response, chat_log, redis, raised, update, profile>>

\* async with AsyncSessionLocal() as db
W_OpenSession ==
    /\ UNCHANGED <<start, store_task, queue_vars, text_vars, wizard_vars, tool_vars, check_vars>>
    /\ pc = "w_session"
    /\ \E ok \in BOOLEAN :
         /\ Log(IF ok THEN "session_ok" ELSE "session_raise")
         /\ pc' = IF ok THEN "w_db_user" ELSE "w_exc"
    /\ UNCHANGED <<request_data, stop_typing, typing_task, emissions, memory_data,
                   response, raised, update, profile>>
    /\ W_UNCHANGED_STORES

W_SaveDbUser ==
    /\ UNCHANGED <<start, store_task, queue_vars, text_vars, wizard_vars, tool_vars, check_vars>>
    /\ pc = "w_db_user"
    /\ \E ok \in BOOLEAN :
         /\ chat_log' = SaveChatToDb(chat_log, "user", request_data.message, ok)
         /\ Log(IF ok THEN "db_user_ok" ELSE "db_user_logged_error")
    /\ pc' = "w_db_bot"
    /\ UNCHANGED <<request_data, stop_typing, typing_task, emissions, memory_data,
                   response, sent, redis, raised, update, profile>>

W_SaveDbBot ==
    /\ UNCHANGED <<start, store_task, queue_vars, text_vars, wizard_vars, tool_vars, check_vars>>
    /\ pc = "w_db_bot"
    /\ \E ok \in BOOLEAN :
         /\ chat_log' = SaveChatToDb(chat_log, "bot", response, ok)
         /\ Log(IF ok THEN "db_bot_ok" ELSE "db_bot_logged_error")
    /\ pc' = "w_redis_user"
    /\ UNCHANGED <<request_data, stop_typing, typing_task, emissions, memory_data,
                   response, sent, redis, raised, update, profile>>

W_SaveRedisUser ==
    /\ UNCHANGED <<start, store_task, queue_vars, text_vars, wizard_vars, tool_vars, check_vars>>
    /\ pc = "w_redis_user"
    /\ \E ok \in BOOLEAN :
         /\ redis' = SaveChatToRedis(redis, "user", request_data.message, ok)
         /\ Log(IF ok THEN "redis_user_ok" ELSE "redis_user_logged_error")
    /\ pc' = "w_redis_bot"
    /\ UNCHANGED <<request_data, stop_typing, typing_task, emissions, memory_data,
                   response, sent, chat_log, raised, update, profile>>

W_SaveRedisBot ==
    /\ UNCHANGED <<start, store_task, queue_vars, text_vars, wizard_vars, tool_vars, check_vars>>
    /\ pc = "w_redis_bot"
    /\ \E ok \in BOOLEAN :
         /\ redis' = SaveChatToRedis(redis, "bot", response, ok)
         /\ Log(IF ok THEN "redis_bot_ok" ELSE "redis_bot_logged_error")
    /\ pc' = "w_store"
    /\ UNCHANGED <<request_data, stop_typing, typing_task, emissions, memory_data,
                   response, sent, chat_log, raised, update, profile>>

\* asyncio.create_task(add_memory_safe())
\* Faulty variant: the store is awaited inside the try block, so the turn
\* waits for it and what it raises reaches the except clause.
W_StartStoreAwaited ==
    /\ UNCHANGED <<start, queue_vars, text_vars, wizard_vars, tool_vars, check_vars>>
    /\ pc = "w_store"
    /\ Log("store_start")
    /\ \E outcome \in StoreOutcomes :
         /\ store_task' = outcome
         /\ pc' = IF outcome = "logged_error" THEN "w_exc" ELSE "w_finally"
    /\ UNCHANGED <<request_data, stop_typing, typing_task, emissions, memory_data,
                   response, raised, update, profile>>
    /\ W_UNCHANGED_STORES

W_StartStore ==
    /\ UNCHANGED <<start, queue_vars, text_vars, wizard_vars, tool_vars, check_vars>>
    /\ pc = "w_store"
    /\ Log("store_start")
    /\ store_task' = "running"
    /\ pc' = "w_finally"
    /\ UNCHANGED <<request_data, stop_typing, typing_task, emissions, memory_data,
                   response, raised, update, profile>>
    /\ W_UNCHANGED_STORES

\* except Exception (inner): stop_typing.set(), then the join and the apology.
W_Except ==
    /\ UNCHANGED <<start, store_task, queue_vars, text_vars, wizard_vars, tool_vars, check_vars>>
    /\ pc = "w_exc"
    /\ stop_typing' = TRUE
    /\ Log("logged_error")
    /\ pc' = "w_exc_join"
    /\ UNCHANGED <<request_data, typing_task, emissions, memory_data, response, raised, update, profile>>
    /\ W_UNCHANGED_STORES

W_ExceptJoin ==
    /\ UNCHANGED <<start, store_task, queue_vars, text_vars, wizard_vars, tool_vars, check_vars>>
    /\ pc = "w_exc_join"
    /\ AwaitTask(typing_task)
    /\ pc' = "w_apology"
    /\ UNCHANGED <<request_data, stop_typing, typing_task, emissions, memory_data,
                   response, trace, raised, update, profile>>
    /\ W_UNCHANGED_STORES

\* The apology; whatever send_message raises is swallowed.
\* Faulty variant: the except clause sends nothing.
W_ApologySkipped ==
    /\ UNCHANGED <<start, store_task, queue_vars, text_vars, wizard_vars, tool_vars, check_vars>>
    /\ pc = "w_apology"
    /\ pc' = "w_finally"
    /\ UNCHANGED <<request_data, stop_typing, typing_task, emissions, memory_data,
                   response, trace, sent, chat_log, redis, raised, update, profile>>

W_Apology ==
    /\ UNCHANGED <<start, store_task, queue_vars, text_vars, wizard_vars, tool_vars, check_vars>>
    /\ pc = "w_apology"
    /\ \E outcome \in SendOutcomes :
         /\ sent' = sent \o Delivered(WORKER_APOLOGY, outcome)
         /\ Log(IF SendRaises(outcome) THEN "send_apology_raise" ELSE "send_apology_ok")
    /\ pc' = "w_finally"
    /\ UNCHANGED <<request_data, stop_typing, typing_task, emissions, memory_data,
                   response, chat_log, redis, raised, update, profile>>

\* finally: stop_typing.set(); the task is awaited if it is not done yet.
W_Finally ==
    /\ UNCHANGED <<start, store_task, queue_vars, text_vars, wizard_vars, tool_vars, check_vars>>
    /\ pc \in {"w_finally", "w_fin_join"}
    /\ (pc = "w_fin_join" => AwaitTask(typing_task))
    /\ stop_typing' = TRUE
    /\ pc' = IF pc = "w_finally" /\ typing_task # "done" THEN "w_fin_join" ELSE "w_ret"
    /\ UNCHANGED <<request_data, typing_task, emissions, memory_data, response, trace,
                   raised, update, profile>>
    /\ W_UNCHANGED_STORES

\* except Exception (outer): the error is logged and the function returns.
\* Faulty variant: the outer handler logs and re-raises.
W_OuterExceptReraise ==
    /\ UNCHANGED <<start, store_task, queue_vars, text_vars, wizard_vars, tool_vars, check_vars>>
    /\ pc = "w_outer"
    /\ Log("logged_fatal")
    /\ raised' = TRUE
    /\ pc' = "w_ret"
    /\ UNCHANGED <<request_data, stop_typing, typing_task, emissions, memory_data,
                   response>>
    /\ W_UNCHANGED_STORES

W_OuterExcept ==
    /\ UNCHANGED <<start, store_task, queue_vars, text_vars, wizard_vars, tool_vars, check_vars>>
    /\ pc = "w_outer"
    /\ Log("logged_fatal")
    /\ raised' = FALSE
    /\ pc' = "w_ret"
    /\ UNCHANGED <<request_data, stop_typing, typing_task, emissions, memory_data,
                   response>>
    /\ W_UNCHANGED_STORES

process_request ==
    \/ W_Validate \/ W_GetMemories \/ W_Generate \/ W_Join \/ W_SendReply
    \/ W_OpenSession \/ W_SaveDbUser \/ W_SaveDbBot \/ W_SaveRedisUser
    \/ W_SaveRedisBot \/ W_StartStore \/ W_Except \/ W_ExceptJoin \/ W_Apology
    \/ W_Finally \/ W_OuterExcept

----------------------------------------------------------------------------
(* handle_message of main.py *)

D1 == <<"1", "9", "9", "0", "-", "0", "1", "-", "1", "5">>
D2 == <<"1", "9", "7", "0", "-", "1", "1", "-", "2", "2">>
T1 == <<"1", "0", ":", "3", "0">>
P1 == <<"S", "y", "d", ",", " ", "A", "U">>
D_SWAPPED == <<"1", "5", "-", "0", "1", "-", "1", "9", "9", "0">>

IsDigit(c) == c \in {"0", "1", "2", "3", "4", "5", "6", "7", "8", "9"}

\* re.match(r'\d{4}-\d{2}-\d{2}', s): the pattern at the start of s.
MatchesDatePrefix(s) ==
    /\ Len(s) >= 10
    /\ \A i \in {1, 2, 3, 4, 6, 7, 9, 10} : IsDigit(s[i])
    /\ s[5] = "-" /\ s[8] = "-"

\* re.match(r'\d{2}:\d{2}', s)
MatchesTimePrefix(s) ==
    /\ Len(s) >= 5
    /\ \A i \in {1, 2, 4, 5} : IsDigit(s[i])
    /\ s[3] = ":"

\* validate_birth_data; <<>> stands for None and for the empty string.
validate_birth_data(date_str, time_str, place_str) ==
    /\ date_str # <<>> /\ time_str # <<>> /\ place_str # <<>>
    /\ MatchesDatePrefix(date_str)
    /\ MatchesTimePrefix(time_str)
    /\ Contains(place_str, <<",">>)

NoProfile == [exists |-> FALSE, date_of_birth |-> <<>>, time_of_birth |-> <<>>,
              place_of_birth |-> <<>>]

Profiles ==
    { NoProfile,
      [exists |-> TRUE, date_of_birth |-> <<>>, time_of_birth |-> <<>>,
       place_of_birth |-> <<>>],
      [exists |-> TRUE, date_of_birth |-> D_SWAPPED, time_of_birth |-> T1,
       place_of_birth |-> P1],
      [exists |-> TRUE, date_of_birth |-> D1, time_of_birth |-> T1,
       place_of_birth |-> P1] }

Updates == { [has_message |-> TRUE, text |-> Q_HI], NoUpdate }

\* What extraction_agent.extract_birth_data can hand back.
ExtractResults ==
    { [kind |-> "raise", date_of_birth |-> <<>>, time_of_birth |-> <<>>,
       place_of_birth |-> <<>>],
      [kind |-> "none", date_of_birth |-> <<>>, time_of_birth |-> <<>>,
       place_of_birth |-> <<>>],
      [kind |-> "dict", date_of_birth |-> D2, time_of_birth |-> <<>>,
       place_of_birth |-> <<>>],
      [kind |-> "dict", date_of_birth |-> D2, time_of_birth |-> T1,
       place_of_birth |-> P1] }

\* extracted and all([extracted.get(...), ...])
ExtractedAll(extracted) ==
    /\ extracted.kind = "dict"
    /\ extracted.date_of_birth # <<>>
    /\ extracted.time_of_birth # <<>>
    /\ extracted.place_of_birth # <<>>

\* has_birth_data = validate_birth_data(user.date_of_birth, ...)
\* Faulty variant: the check is not made.
HasBirthDataUnchecked(user) == TRUE

HasBirthData(user) ==
    validate_birth_data(user.date_of_birth, user.time_of_birth, user.place_of_birth)

\* user.date_of_birth = extracted["date_of_birth"] and the two other
\* assignments of the direct-extraction shortcut.
\* Faulty variant: only the date is copied to the row.
ShortcutProfileDateOnly(user, extracted) ==
    [user EXCEPT !.date_of_birth = extracted.date_of_birth]

ShortcutProfile(user, extracted) ==
    [user EXCEPT !.date_of_birth = extracted.date_of_birth,
                 !.time_of_birth = extracted.time_of_birth,
                 !.place_of_birth = extracted.place_of_birth]

SHORTCUT_UPDATED == <<"DETAILS_UPDATED">>
SHORTCUT_THANKS  == <<"THANKS_FOR_DETAILS">>
ASK_DETAILS      == <<"ASK_DETAILS">>

H_UNCHANGED_STORES == UNCHANGED <<sent, chat_log, redis, request_data, update>>

\* message = update.message ...; the typing task is created.
H_Start ==
    /\ UNCHANGED <<start, store_task, queue_vars, text_vars, wizard_vars, tool_vars, check_vars>>
    /\ pc = "h_start"
    /\ IF update.has_message
       THEN /\ typing_task' = "created"
            /\ Log("typing_start")
            /\ pc' = "h_user"
       ELSE /\ pc' = "h_exc"
            /\ UNCHANGED <<typing_task, trace>>
    /\ UNCHANGED <<stop_typing, emissions, memory_data, response, raised, profile>>
    /\ H_UNCHANGED_STORES

\* The session is opened and the user row is read, or inserted and committed.
H_UpsertUser ==
    /\ UNCHANGED <<start, store_task, queue_vars, text_vars, wizard_vars, tool_vars, check_vars>>
    /\ pc = "h_user"
    /\ \/ /\ profile' = [profile EXCEPT !.exists = TRUE]
          /\ pc' = "h_extract"
       \/ /\ pc' = "h_exc"
          /\ UNCHANGED profile
    /\ UNCHANGED <<stop_typing, typing_task, emissions, memory_data, response, trace,
                   raised>>
    /\ H_UNCHANGED_STORES

\* extract_birth_data and the branch on its result; the direct-extraction
\* shortcut assigns the three fields and commits.
H_Extract ==
    /\ UNCHANGED <<start, store_task, queue_vars, text_vars, wizard_vars, tool_vars, check_vars>>
    /\ pc = "h_extract"
    /\ \E extracted \in ExtractResults :
         /\ Log(IF extracted.kind = "raise" THEN "extract_raise"
                ELSE IF ExtractedAll(extracted) THEN "extract_all"
                ELSE "extract_partial")
         /\ IF extracted.kind = "raise"
            THEN /\ pc' = "h_exc"
                 /\ UNCHANGED <<profile, response, stop_typing>>
            ELSE IF ExtractedAll(extracted)
            THEN \/ /\ profile' = ShortcutProfile(profile, extracted)
                    /\ response' = IF HasBirthData(profile) THEN SHORTCUT_UPDATED
                                   ELSE SHORTCUT_THANKS
                    /\ stop_typing' = TRUE
                    /\ pc' = "h_short_join"
                 \/ /\ pc' = "h_exc"
                    /\ UNCHANGED <<profile, response, stop_typing>>
            ELSE IF ~HasBirthData(profile)
            THEN /\ response' = ASK_DETAILS
                 /\ stop_typing' = TRUE
                 /\ pc' = "h_short_join"
                 /\ UNCHANGED profile
            ELSE /\ pc' = "h_mem"
                 /\ UNCHANGED <<profile, response, stop_typing>>
    /\ UNCHANGED <<typing_task, emissions, memory_data, raised>>
    /\ H_UNCHANGED_STORES

\* if typing_task: await typing_task  (shortcut, ask-for-details and reply paths)
H_Join ==
    /\ UNCHANGED <<start, store_task, queue_vars, text_vars, wizard_vars, tool_vars, check_vars>>
    /\ pc \in {"h_short_join", "h_join"}
    /\ AwaitTask(typing_task)
    /\ pc' = IF pc = "h_join" THEN "h_send" ELSE "h_short_send"
    /\ UNCHANGED <<stop_typing, typing_task, emissions, memory_data, response, trace,
                   raised, profile>>
    /\ H_UNCHANGED_STORES

\* send_message of the confirmation or of the request for details; return.
H_SendShort ==
    /\ UNCHANGED <<start, store_task, queue_vars, text_vars, wizard_vars, tool_vars, check_vars>>
    /\ pc = "h_short_send"
    /\ \E outcome \in SendOutcomes :
         /\ sent' = sent \o Delivered(response, outcome)
         /\ Log(IF SendRaises(outcome) THEN "send_short_raise" ELSE "send_short_ok")
         /\ pc' = IF SendRaises(outcome) THEN "h_exc" ELSE "h_finally"
    /\ UNCHANGED <<stop_typing, typing_task, emissions, memory_data, response, raised,
                   profile, chat_log, redis, request_data, update>>

H_GetMemories ==
    /\ UNCHANGED <<start, store_task, queue_vars, text_vars, wizard_vars, tool_vars, check_vars>>
    /\ pc = "h_mem"
    /\ \E result \in MemResults :
         /\ memory_data' = MemoryData(result)
         /\ Log(IF result.kind = "raise" THEN "mem_raise"
                ELSE IF result.kind \in {"dict", "dict_no_data"} THEN "mem_ok"
                ELSE "mem_invalid")
    /\ pc' = "h_gen"
    /\ UNCHANGED <<stop_typing, typing_task, emissions, response, raised, profile>>
    /\ H_UNCHANGED_STORES

H_Generate ==
    /\ UNCHANGED <<start, store_task, queue_vars, text_vars, wizard_vars, tool_vars, check_vars>>
    /\ pc = "h_gen"
    /\ \/ \E text \in GenReturns :
            /\ response' = CleanResponse(text)
            /\ stop_typing' = TRUE
            /\ Log("gen_ok")
            /\ pc' = "h_join"
       \/ /\ Log("gen_raise")
          /\ pc' = "h_exc"
          /\ UNCHANGED <<response, stop_typing>>
    /\ UNCHANGED <<typing_task, emissions, memory_data, raised, profile>>
    /\ H_UNCHANGED_STORES

H_SendReply ==
    /\ UNCHANGED <<start, store_task, queue_vars, text_vars, wizard_vars, tool_vars, check_vars>>
    /\ pc = "h_send"
    /\ \E outcome \in SendOutcomes :
         /\ sent' = sent \o Delivered(response, outcome)
         /\ Log(IF SendRaises(outcome) THEN "send_reply_raise" ELSE "send_reply_ok")
         /\ pc' = IF SendRaises(outcome) THEN "h_exc" ELSE "h_db_user"
    /\ UNCHANGED <<stop_typing, typing_task, emissions, memory_data, response, raised,
                   profile, chat_log, redis, request_data, update>>

\* The two save_chat_to_db calls and the two save_chat_to_redis calls.
H_Persist ==
    /\ UNCHANGED <<start, queue_vars, text_vars, wizard_vars, tool_vars, check_vars>>
    /\ pc = "h_db_user"
    /\ store_task' = "running"
    /\ \E ok1 \in BOOLEAN, ok2 \in BOOLEAN, ok3 \in BOOLEAN, ok4 \in BOOLEAN :
         /\ chat_log' = SaveChatToDb(SaveChatToDb(chat_log, "user", update.text, ok1),
                                     "bot", response, ok2)
         /\ redis' = SaveChatToRedis(SaveChatToRedis(redis, "user", update.text, ok3),
                                     "bot", response, ok4)
         /\ trace' = trace \o <<IF ok1 THEN "db_user_ok" ELSE "db_user_logged_error",
                                IF ok2 THEN "db_bot_ok" ELSE "db_bot_logged_error",
                                IF ok3 THEN "redis_user_ok" ELSE "redis_user_logged_error",
                                IF ok4 THEN "redis_bot_ok" ELSE "redis_bot_logged_error",
                                "store_start">>
    /\ pc' = "h_finally"
    /\ UNCHANGED <<stop_typing, typing_task, emissions, memory_data, response, raised,
                   profile, sent, request_data, update>>

\* except Exception: stop_typing.set(); the task, if there is one, is awaited.
H_Except ==
    /\ UNCHANGED <<start, store_task, queue_vars, text_vars, wizard_vars, tool_vars, check_vars>>
    /\ pc = "h_exc"
    /\ stop_typing' = TRUE
    /\ Log("logged_error")
    /\ pc' = IF typing_task = "none" THEN "h_apology" ELSE "h_exc_join"
    /\ UNCHANGED <<typing_task, emissions, memory_data, response, raised, profile>>
    /\ H_UNCHANGED_STORES

H_ExceptJoin ==
    /\ UNCHANGED <<start, store_task, queue_vars, text_vars, wizard_vars, tool_vars, check_vars>>
    /\ pc = "h_exc_join"
    /\ AwaitTask(typing_task)
    /\ pc' = "h_apology"
    /\ UNCHANGED <<stop_typing, typing_task, emissions, memory_data, response, trace,
                   raised, profile>>
    /\ H_UNCHANGED_STORES

\* The apology; chat_id is unbound when the event had no message, and
\* whatever is raised is swallowed.
H_Apology ==
    /\ UNCHANGED <<start, store_task, queue_vars, text_vars, wizard_vars, tool_vars, check_vars>>
    /\ pc = "h_apology"
    /\ IF update.has_message
       THEN \E outcome \in SendOutcomes :
              /\ sent' = sent \o Delivered(DISPATCH_APOLOGY, outcome)
              /\ Log(IF SendRaises(outcome) THEN "send_apology_raise"
                     ELSE "send_apology_ok")
       ELSE UNCHANGED <<sent, trace>>
    /\ pc' = "h_finally"
    /\ UNCHANGED <<stop_typing, typing_task, emissions, memory_data, response, raised,
                   profile, chat_log, redis, request_data, update>>

H_Finally ==
    /\ UNCHANGED <<start, store_task, queue_vars, text_vars, wizard_vars, tool_vars, check_vars>>
    /\ pc \in {"h_finally", "h_fin_join"}
    /\ (pc = "h_fin_join" => AwaitTask(typing_task))
    /\ stop_typing' = TRUE
    /\ pc' = IF pc = "h_finally" /\ typing_task \notin {"none", "done"}
             THEN "h_fin_join" ELSE "h_ret"
    /\ UNCHANGED <<typing_task, emissions, memory_data, response, trace, raised, profile>>
    /\ H_UNCHANGED_STORES

handle_message ==
    \/ H_Start \/ H_UpsertUser \/ H_Extract \/ H_Join \/ H_SendShort \/ H_GetMemories
    \/ H_Generate \/ H_SendReply \/ H_Persist \/ H_Except \/ H_ExceptJoin
    \/ H_Apology \/ H_Finally

----------------------------------------------------------------------------
(* QueueService: publish_request and start_consumer *)

Bodies == {"json", "not_json"}

HandlerOutcomes == {"return", "raise"}

\* `async with message.process()`: leaving the block without an exception
\* acknowledges the message; an exception leaving the block rejects it.
ProcessExit(exception_escaped) == IF exception_escaped THEN "reject" ELSE "ack"

\* The try/except Exception around the body of the block: whether what the
\* body raised leaves the block.
\* Faulty variant: the body of the block has no handler of its own.
EscapesHandlerBlockUncaught(outcome) == TRUE

EscapesHandlerBlock(outcome) == FALSE

\* A message is published to the durable queue.
Q_Publish ==
    /\ published < MaxPublished
    /\ \E body \in Bodies :
         broker' = Append(broker, [id |-> published + 1, body |-> body])
    /\ published' = published + 1
    /\ UNCHANGED <<in_flight, settled, is_processing, q_pc>>
    /\ UNCHANGED <<turn_vars, text_vars, wizard_vars, tool_vars, check_vars>>

\* start_consumer is called: is_processing is set and the iterator is opened.
Q_Start ==
    /\ q_pc = "idle"
    /\ is_processing' = TRUE
    /\ q_pc' = "iterating"
    /\ UNCHANGED <<broker, in_flight, settled, published>>
    /\ UNCHANGED <<turn_vars, text_vars, wizard_vars, tool_vars, check_vars>>

\* The iterator yields the next message (prefetch_count = 1): the loop body
\* awaits the handler, so the next message is taken only after the block of the
\* previous one has been left.
\* Faulty variant: the handler is started as a task and the loop goes on.
Q_ReceiveConcurrent ==
    /\ q_pc \in {"iterating", "processing"}
    /\ broker # <<>>
    /\ in_flight' = Append(in_flight, Head(broker))
    /\ broker' = Tail(broker)
    /\ q_pc' = "processing"
    /\ UNCHANGED <<settled, published, is_processing>>
    /\ UNCHANGED <<turn_vars, text_vars, wizard_vars, tool_vars, check_vars>>

Q_Receive ==
    /\ q_pc = "iterating"
    /\ in_flight = <<>>
    /\ broker # <<>>
    /\ in_flight' = <<Head(broker)>>
    /\ broker' = Tail(broker)
    /\ q_pc' = "processing"
    /\ UNCHANGED <<settled, published, is_processing>>
    /\ UNCHANGED <<turn_vars, text_vars, wizard_vars, tool_vars, check_vars>>

\* The body of the block: json.loads, then the handler; the block is left and
\* the message is settled.  An exception that left the block would leave the
\* iteration as well and end start_consumer in its outer handler.
Q_Handle ==
    /\ q_pc = "processing"
    /\ \E result \in HandlerOutcomes :
         LET msg == in_flight[1]
             outcome == IF msg.body = "not_json" THEN "not_json" ELSE result
             escaped == outcome # "return" /\ EscapesHandlerBlock(outcome)
         IN /\ settled' = Append(settled, [id |-> msg.id, outcome |-> outcome,
                                           how |-> ProcessExit(escaped)])
            /\ q_pc' = IF escaped THEN "stopped" ELSE "iterating"
            /\ is_processing' = IF escaped THEN FALSE ELSE is_processing
    /\ in_flight' = <<>>
    /\ UNCHANGED <<broker, published>>
    /\ UNCHANGED <<turn_vars, text_vars, wizard_vars, tool_vars, check_vars>>

\* The consumer task is cancelled: CancelledError leaves the block, the
\* message in flight is rejected, and is_processing is cleared.
Q_Cancel ==
    /\ q_pc \in {"iterating", "processing"}
    /\ IF in_flight # <<>>
       THEN settled' = Append(settled, [id |-> in_flight[1].id, outcome |-> "cancelled",
                                        how |-> ProcessExit(TRUE)])
       ELSE UNCHANGED settled
    /\ in_flight' = <<>>
    /\ is_processing' = FALSE
    /\ q_pc' = "stopped"
    /\ UNCHANGED <<broker, published>>
    /\ UNCHANGED <<turn_vars, text_vars, wizard_vars, tool_vars, check_vars>>

start_consumer == Q_Start \/ Q_Receive \/ Q_Handle \/ Q_Cancel

----------------------------------------------------------------------------
(* RudieAgent.generate_response *)

MaxReplyLen == 400
MinReplyLen == 20

\* The chunks a model output is made of.
OutputChunks == {OPEN, CLOSE, ".", " ", "x19", "x399"}

RECURSIVE TextsUpTo(_)
TextsUpTo(n) ==
    IF n = 0 THEN {<<>>}
    ELSE LET shorter == TextsUpTo(n - 1)
         IN shorter \cup {Append(t, c) : t \in {u \in shorter : Len(u) = n - 1},
                                         c \in OutputChunks}

ModelOutputs == TextsUpTo(MaxChunks)

FALLBACK    == <<"FALLBACK">>
GEN_APOLOGY == <<"GEN_APOLOGY">>

\* re.sub(r' +', ' ', text)
RECURSIVE CollapseSpaces(_)
CollapseSpaces(s) ==
    IF Len(s) < 2 THEN s
    ELSE IF s[1] = " " /\ s[2] = " " THEN CollapseSpaces(Tail(s))
    ELSE <<Head(s)>> \o CollapseSpaces(Tail(s))

\* _extract_final_response.  On texts made of OutputChunks the substitutions
\* that look for words, digits, brackets, braces, backticks, asterisks, hashes,
\* dashes or newlines find nothing; what acts is the removal of think blocks,
\* the collapsing of spaces and the final strip.
ExtractFinalResponse(text) ==
    IF text = <<>> THEN <<>> ELSE Strip(CollapseSpaces(RemoveThinkBlocks(text)))

\* text.split('.')
RECURSIVE SplitDots(_)
SplitDots(s) ==
    IF \A i \in 1..Len(s) : s[i] # "." THEN <<s>>
    ELSE LET i == CHOOSE k \in 1..Len(s) : s[k] = "." /\ \A j \in 1..(k-1) : s[j] # "."
         IN <<SubSeq(s, 1, i - 1)>> \o SplitDots(SubSeq(s, i + 1, Len(s)))

\* for sentence in sentences: ... truncated += sentence + '.' ... else: break
RECURSIVE TruncateLoop(_, _)
TruncateLoop(sentences, truncated) ==
    IF sentences = <<>> THEN truncated
    ELSE IF TextLen(truncated \o Head(sentences) \o <<".">>) <= MaxReplyLen
         THEN TruncateLoop(Tail(sentences), truncated \o Head(sentences) \o <<".">>)
         ELSE truncated

\* if len(response_text) > 400: ...; response_text = truncated.strip()
Truncate(text) ==
    IF TextLen(text) > MaxReplyLen THEN Strip(TruncateLoop(SplitDots(text), <<>>))
    ELSE text

\* not response_text or len(response_text) < 20
\* Faulty variant: only the empty text counts as too short.
TooShortOnlyEmpty(text) == text = <<>>

TooShort(text) == text = <<>> \/ TextLen(text) < MinReplyLen

\* The execution settings and the prompt of each kind of model call: whether
\* function calling is on, and which note is added to the system message.
CallSettings(call) ==
    CASE call = "direct"   -> [tools |-> FALSE, prompt |-> "full"]
      [] call = "tools"    -> [tools |-> TRUE,  prompt |-> "full"]
      [] call = "no_tools" -> [tools |-> FALSE, prompt |-> "general_insight"]
      [] call = "retry"    -> [tools |-> TRUE,  prompt |-> "respond_directly"]

\* if enable_thinking and not is_gpt_oss  (enable_thinking here is the local
\* settings.enable_thinking or is_gpt_oss)
\* Faulty variant: the retry is made whatever the configuration.
RetriesAlways == TRUE

Retries == (enable_thinking \/ is_gpt_oss) /\ ~is_gpt_oss

\* except Exception as e: the error is logged and the static apology returned.
\* Faulty variant: the handler logs and re-raises.
GenOuterExceptReraise ==
    /\ gen_raised' = TRUE
    /\ g_pc' = "g_returned"
    /\ UNCHANGED response_text

GenOuterExcept ==
    /\ response_text' = GEN_APOLOGY
    /\ gen_raised' = FALSE
    /\ g_pc' = "g_returned"

\* The steps before the model call (the tool context and the system prompt are
\* built from user_context) and the first model call: the direct API call for
\* a gpt-oss model, otherwise the chat service with function calling and, if
\* that raises, once more without.  An exception that leaves this part is
\* caught by the outer handler.
G_Call ==
    /\ g_pc = "g_start"
    /\ \E setup_raises \in BOOLEAN, first_raises \in BOOLEAN, second_raises \in BOOLEAN,
          output \in ModelOutputs :
         /\ (setup_raises => ~first_raises)
         /\ (is_gpt_oss \/ ~first_raises => ~second_raises)
         /\ model_calls' =
              IF setup_raises THEN <<>>
              ELSE IF is_gpt_oss THEN <<"direct">>
              ELSE IF first_raises THEN <<"tools", "no_tools">> ELSE <<"tools">>
         /\ gen_failures' =
              IF setup_raises THEN <<"setup">>
              ELSE IF ~first_raises THEN <<>>
              ELSE IF is_gpt_oss THEN <<"direct">>
              ELSE IF second_raises THEN <<"tools", "no_tools">> ELSE <<"tools">>
         /\ IF setup_raises \/ (is_gpt_oss /\ first_raises) \/ second_raises
            THEN GenOuterExcept
            ELSE /\ response_text' = IF is_gpt_oss THEN ExtractFinalResponse(output)
                                      ELSE ExtractFinalResponse(Strip(output))
                 /\ g_pc' = "g_clean"
                 /\ UNCHANGED gen_raised
    /\ UNCHANGED <<enable_thinking, is_gpt_oss, cleaned, reply_text>>
    /\ UNCHANGED <<turn_vars, queue_vars, wizard_vars, tool_vars, check_vars>>

\* The thinking_starters loop and the reasoning filter find nothing in texts
\* made of OutputChunks; the length check and the truncation follow.
G_Truncate ==
    /\ g_pc = "g_clean"
    /\ cleaned' = Strip(response_text)
    /\ response_text' = Truncate(Strip(response_text))
    /\ g_pc' = "g_fallback"
    /\ UNCHANGED <<enable_thinking, is_gpt_oss, model_calls, gen_failures, gen_raised,
                   reply_text>>
    /\ UNCHANGED <<turn_vars, queue_vars, wizard_vars, tool_vars, check_vars>>

\* The fallback for an empty or short result: one retry when thinking is
\* enabled and the model is not gpt-oss (what the retry raises is logged), then
\* the static message.
G_Fallback ==
    /\ g_pc = "g_fallback"
    /\ IF TooShort(response_text)
       THEN IF Retries
            THEN \E retry_raises \in BOOLEAN, output \in ModelOutputs :
                   LET retried == IF retry_raises THEN response_text
                                  ELSE ExtractFinalResponse(Strip(output))
                   IN /\ response_text' = IF TooShort(retried) THEN FALLBACK ELSE retried
                      /\ model_calls' = Append(model_calls, "retry")
                      /\ gen_failures' = IF retry_raises THEN Append(gen_failures, "retry")
                                         ELSE gen_failures
            ELSE /\ response_text' = FALLBACK
                 /\ UNCHANGED <<model_calls, gen_failures>>
       ELSE UNCHANGED <<response_text, model_calls, gen_failures>>
    /\ g_pc' = "g_returned"
    /\ UNCHANGED <<enable_thinking, is_gpt_oss, cleaned, gen_raised, reply_text>>
    /\ UNCHANGED <<turn_vars, queue_vars, wizard_vars, tool_vars, check_vars>>

\* process_request cleans what generate_response returned and hands it to
\* send_message.
G_Deliver ==
    /\ g_pc = "g_returned"
    /\ ~gen_raised
    /\ reply_text' = CleanResponse(response_text)
    /\ g_pc' = "g_sent"
    /\ UNCHANGED <<enable_thinking, is_gpt_oss, response_text, cleaned, model_calls,
                   gen_failures, gen_raised>>
    /\ UNCHANGED <<turn_vars, queue_vars, wizard_vars, tool_vars, check_vars>>

generate_response == G_Call \/ G_Truncate \/ G_Fallback

----------------------------------------------------------------------------
(* The birth details wizard: start_birth_details_wizard, receive_birth_date,  *)
(* receive_birth_time, receive_birth_place and cancel_wizard of main.py (the  *)
(* same functions are in app/handlers/conversation_handlers.py).  A handler   *)
(* that raises leaves the conversation in the state it was in.                *)

BIRTH_DATE  == "BIRTH_DATE"
BIRTH_TIME  == "BIRTH_TIME"
BIRTH_PLACE == "BIRTH_PLACE"
END         == "END"

D3        == <<"2", "0", "0", "0", "-", "0", "2", "-", "2", "9">>
D_FEB30   == <<"1", "9", "9", "0", "-", "0", "2", "-", "3", "0">>
D_1900    == <<"1", "9", "0", "0", "-", "0", "2", "-", "2", "9">>
D_MONTH13 == <<"1", "9", "9", "0", "-", "1", "3", "-", "0", "1">>
D_YEAR0   == <<"0", "0", "0", "0", "-", "0", "1", "-", "0", "1">>
D_SHORT   == <<"1", "9", "9", "0", "-", "1", "-", "1", "5">>
D_LONG    == <<"1", "9", "9", "0", "-", "0", "1", "-", "1", "5", "x">>
D_DAY0    == <<"1", "9", "9", "0", "-", "0", "4", "-", "0", "0">>
D_APR31   == <<"1", "9", "9", "0", "-", "0", "4", "-", "3", "1">>
D_PADDED  == <<" ", "1", "9", "9", "0", "-", "0", "1", "-", "1", "5", "\n">>

T2        == <<"2", "3", ":", "5", "9">>
T3        == <<"0", "0", ":", "0", "0">>
T_24      == <<"2", "4", ":", "0", "0">>
T_60      == <<"1", "2", ":", "6", "0">>
T_SHORT   == <<"9", ":", "1", "5">>
T_SECONDS == <<"1", "0", ":", "3", "0", ":", "0", "0">>
T_LETTERS == <<"a", "b", ":", "c", "d">>
T_PADDED  == <<" ", "1", "0", ":", "3", "0", " ">>

P2         == <<",">>
P_NO_COMMA == <<"S", "y", "d">>
P_PADDED   == <<" ", "S", "y", "d", ",", " ", "A", "U", " ">>

\* update.message.text as the three receive handlers can get it.
DateInputs == {D1, D3, D_PADDED, D_SWAPPED, D_FEB30, D_1900, D_MONTH13, D_YEAR0,
               D_SHORT, D_LONG, D_DAY0, D_APR31}
TimeInputs == {T1, T2, T3, T_PADDED, T_24, T_60, T_SHORT, T_SECONDS, T_LETTERS}
PlaceInputs == {P1, P2, P_PADDED, P_NO_COMMA}

DigitVal(c) ==
    CASE c = "0" -> 0 [] c = "1" -> 1 [] c = "2" -> 2 [] c = "3" -> 3 [] c = "4" -> 4
      [] c = "5" -> 5 [] c = "6" -> 6 [] c = "7" -> 7 [] c = "8" -> 8 [] c = "9" -> 9

\* int() of a text of digits.
RECURSIVE Num(_)
Num(s) == IF s = <<>> THEN 0
          ELSE 10 * Num(SubSeq(s, 1, Len(s) - 1)) + DigitVal(s[Len(s)])

\* re.match(r'^\d{4}-\d{2}-\d{2}$', date_text) on a stripped text.
FullMatchDate(s) == Len(s) = 10 /\ MatchesDatePrefix(s)

\* re.match(r'^\d{2}:\d{2}$', time_text) on a stripped text.
FullMatchTime(s) == Len(s) = 5 /\ MatchesTimePrefix(s)

IsLeap(y) == (y % 4 = 0 /\ y % 100 # 0) \/ y % 400 = 0

DaysInMonth(y, m) ==
    IF m = 2 THEN (IF IsLeap(y) THEN 29 ELSE 28)
    ELSE IF m \in {4, 6, 9, 11} THEN 30 ELSE 31

\* datetime.strptime(date_text, '%Y-%m-%d') does not raise ValueError, for a
\* text that matched the pattern.
\* Faulty variant: the text is not parsed as a date.
StrptimeSkipped(s) == TRUE

StrptimeOk(s) ==
    LET y == Num(SubSeq(s, 1, 4))
        m == Num(SubSeq(s, 6, 7))
        d == Num(SubSeq(s, 9, 10))
    IN y >= 1 /\ m \in 1..12 /\ d \in 1..DaysInMonth(y, m)

\* hour, minute = map(int, time_text.split(':'));
\* 0 <= hour <= 23 and 0 <= minute <= 59
\* Faulty variant: the upper ends are one too high.
TimeInRangeOffByOne(s) ==
    LET hour == Num(SubSeq(s, 1, 2))
        minute == Num(SubSeq(s, 4, 5))
    IN 0 <= hour /\ hour <= 24 /\ 0 <= minute /\ minute <= 60

TimeInRange(s) ==
    LET hour == Num(SubSeq(s, 1, 2))
        minute == Num(SubSeq(s, 4, 5))
    IN 0 <= hour /\ hour <= 23 /\ 0 <= minute /\ minute <= 59

NoUserData == [is_update |-> "unset", birth_date |-> <<>>, birth_time |-> <<>>,
               birth_place |-> <<>>]

NoCall == [handler |-> "none", input |-> <<>>, raised |-> FALSE, sent |-> <<>>,
           stage0 |-> END, user_data0 |-> NoUserData, profile0 |-> NoProfile]

\* user and validate_birth_data(...)
IsUpdate(user) ==
    IF ~user.exists THEN "None" ELSE IF HasBirthData(user) THEN "True" ELSE "False"

\* The messages of the wizard.
StartMessage(data) ==
    IF data.is_update = "True" THEN <<"LETS_UPDATE">> ELSE <<"WELCOME">>
DATE_BAD_FORMAT == <<"DATE_BAD_FORMAT">>
DATE_BAD_DATE   == <<"DATE_BAD_DATE">>
TimePrompt(date_text) == <<"GOT_IT">> \o date_text \o <<"STEP_2">>
TIME_BAD_FORMAT == <<"TIME_BAD_FORMAT">>
TIME_BAD_TIME   == <<"TIME_BAD_TIME">>
PlacePrompt(time_text) == <<"PERFECT">> \o time_text \o <<"STEP_3">>
PLACE_NO_COMMA  == <<"PLACE_NO_COMMA">>
Confirmation(data) ==
    <<IF data.is_update = "True" THEN "DETAILS_UPDATED" ELSE "ALL_SET">>
    \o data.birth_date \o <<"|">> \o data.birth_time \o <<"|">> \o data.birth_place
CANCELLED == <<"CANCELLED">>

\* The call record of a handler.
Call(handler, input, outcome, text) ==
    [handler |-> handler, input |-> input, raised |-> SendRaises(outcome),
     sent |-> Delivered(text, outcome),
     stage0 |-> z_stage, user_data0 |-> user_data, profile0 |-> profile]

Failed(handler, input) ==
    [handler |-> handler, input |-> input, raised |-> TRUE, sent |-> <<>>,
     stage0 |-> z_stage, user_data0 |-> user_data, profile0 |-> profile]

\* user.date_of_birth = context.user_data['birth_date'] and the two other
\* assignments of receive_birth_place; the row is created when there is none.
\* Faulty variant: the time is not copied to the row.
WizardProfileWithoutTime(user, data) ==
    [user EXCEPT !.exists = TRUE,
                 !.date_of_birth = data.birth_date,
                 !.place_of_birth = data.birth_place]

WizardProfile(user, data) ==
    [user EXCEPT !.exists = TRUE,
                 !.date_of_birth = data.birth_date,
                 !.time_of_birth = data.birth_time,
                 !.place_of_birth = data.birth_place]

\* Entry point (/change, /setup), taken when the user has no conversation.
Z_Start ==
    /\ z_stage = END
    /\ z_profile0' = profile
    /\ \/ \E outcome \in SendOutcomes :
            LET data == [user_data EXCEPT !.is_update = IsUpdate(profile)]
            IN /\ user_data' = data
               /\ z_last' = Call("start", <<>>, outcome, StartMessage(data))
               /\ z_stage' = IF SendRaises(outcome) THEN z_stage ELSE BIRTH_DATE
       \/ \* the session or the select raises
          /\ z_last' = Failed("start", <<>>)
          /\ UNCHANGED <<z_stage, user_data>>
    /\ UNCHANGED <<profile, turn_rest, queue_vars, text_vars, tool_vars, check_vars>>

\* receive_birth_date.
\* Faulty variant: a valid date takes the conversation straight to the place.
Z_DateSkipsTime ==
    /\ z_stage = BIRTH_DATE
    /\ \E input \in DateInputs, outcome \in SendOutcomes :
         LET date_text == Strip(input)
         IN IF ~FullMatchDate(date_text)
            THEN /\ z_last' = Call("date", input, outcome, DATE_BAD_FORMAT)
                 /\ UNCHANGED <<z_stage, user_data>>
            ELSE IF ~StrptimeOk(date_text)
            THEN /\ z_last' = Call("date", input, outcome, DATE_BAD_DATE)
                 /\ UNCHANGED <<z_stage, user_data>>
            ELSE /\ user_data' = [user_data EXCEPT !.birth_date = date_text]
                 /\ z_last' = Call("date", input, outcome, TimePrompt(date_text))
                 /\ z_stage' = IF SendRaises(outcome) THEN z_stage ELSE BIRTH_PLACE
    /\ UNCHANGED <<z_profile0, profile, turn_rest, queue_vars, text_vars, tool_vars, check_vars>>

Z_Date ==
    /\ z_stage = BIRTH_DATE
    /\ \E input \in DateInputs, outcome \in SendOutcomes :
         LET date_text == Strip(input)
         IN IF ~FullMatchDate(date_text)
            THEN /\ z_last' = Call("date", input, outcome, DATE_BAD_FORMAT)
                 /\ UNCHANGED <<z_stage, user_data>>
            ELSE IF ~StrptimeOk(date_text)
            THEN /\ z_last' = Call("date", input, outcome, DATE_BAD_DATE)
                 /\ UNCHANGED <<z_stage, user_data>>
            ELSE /\ user_data' = [user_data EXCEPT !.birth_date = date_text]
                 /\ z_last' = Call("date", input, outcome, TimePrompt(date_text))
                 /\ z_stage' = IF SendRaises(outcome) THEN z_stage ELSE BIRTH_TIME
    /\ UNCHANGED <<z_profile0, profile, turn_rest, queue_vars, text_vars, tool_vars, check_vars>>

Z_Time ==
    /\ z_stage = BIRTH_TIME
    /\ \E input \in TimeInputs, outcome \in SendOutcomes :
         LET time_text == Strip(input)
         IN IF ~FullMatchTime(time_text)
            THEN /\ z_last' = Call("time", input, outcome, TIME_BAD_FORMAT)
                 /\ UNCHANGED <<z_stage, user_data>>
            ELSE IF ~TimeInRange(time_text)
            THEN /\ z_last' = Call("time", input, outcome, TIME_BAD_TIME)
                 /\ UNCHANGED <<z_stage, user_data>>
            ELSE /\ user_data' = [user_data EXCEPT !.birth_time = time_text]
                 /\ z_last' = Call("time", input, outcome, PlacePrompt(time_text))
                 /\ z_stage' = IF SendRaises(outcome) THEN z_stage ELSE BIRTH_PLACE
    /\ UNCHANGED <<z_profile0, profile, turn_rest, queue_vars, text_vars, tool_vars, check_vars>>

\* receive_birth_place: the comma check, the write of the three fields in one
\* commit, the confirmation, context.user_data.clear().
Z_Place ==
    /\ z_stage = BIRTH_PLACE
    /\ \E input \in PlaceInputs, outcome \in SendOutcomes, commit_ok \in BOOLEAN :
         LET place_text == Strip(input)
             data == [user_data EXCEPT !.birth_place = place_text]
         IN IF ~Contains(place_text, <<",">>)
            THEN /\ z_last' = Call("place", input, outcome, PLACE_NO_COMMA)
                 /\ UNCHANGED <<z_stage, user_data, profile>>
            ELSE IF ~commit_ok
            THEN /\ user_data' = data
                 /\ z_last' = Failed("place", input)
                 /\ UNCHANGED <<z_stage, profile>>
            ELSE /\ profile' = WizardProfile(profile, data)
                 /\ z_last' = Call("place", input, outcome, Confirmation(data))
                 /\ user_data' = IF SendRaises(outcome) THEN data ELSE NoUserData
                 /\ z_stage' = IF SendRaises(outcome) THEN z_stage ELSE END
    /\ UNCHANGED <<z_profile0, turn_rest, queue_vars, text_vars, tool_vars, check_vars>>

\* Fallback /cancel, available in the three stages.
Z_Cancel ==
    /\ z_stage \in {BIRTH_DATE, BIRTH_TIME, BIRTH_PLACE}
    /\ \E outcome \in SendOutcomes :
         /\ z_last' = Call("cancel", <<>>, outcome, CANCELLED)
         /\ user_data' = IF SendRaises(outcome) THEN user_data ELSE NoUserData
         /\ z_stage' = IF SendRaises(outcome) THEN z_stage ELSE END
    /\ UNCHANGED <<z_profile0, profile, turn_rest, queue_vars, text_vars, tool_vars, check_vars>>

birth_details_conversation == Z_Start \/ Z_Date \/ Z_Time \/ Z_Place \/ Z_Cancel

----------------------------------------------------------------------------
(* validate_birth_data of main.py, applied to the three fields of a users row *)

\* What a field of the row can hold: None or the empty string (<<>>), or a
\* text (the shortcut of handle_message stores what the extraction agent
\* returned as it is).
ValidateArgs ==
    [date_str : DateInputs \cup {<<>>}, time_str : TimeInputs \cup {<<>>},
     place_str : PlaceInputs \cup {<<>>}]

NoArgs == [date_str |-> <<>>, time_str |-> <<>>, place_str |-> <<>>]

V_Validate ==
    /\ v_result = "none"
    /\ v_result' = IF validate_birth_data(v_args.date_str, v_args.time_str,
                                          v_args.place_str)
                   THEN "True" ELSE "False"
    /\ UNCHANGED <<v_args, turn_vars, queue_vars, text_vars, wizard_vars, tool_vars>>

----------------------------------------------------------------------------
(* TelegramService.save_chat_to_redis, called any number of times for a user *)

CacheMessages == {Q_HI, REPLY_PLAIN}

K_SaveChatToRedis ==
    /\ pc = "k_ready"
    /\ Len(trace) < MaxSaves
    /\ \E message_type \in {"user", "bot"}, message \in CacheMessages, ok \in BOOLEAN :
         /\ redis' = SaveChatToRedis(redis, message_type, message, ok)
         /\ Log([message_type |-> message_type, message |-> message, ok |-> ok])
    /\ UNCHANGED <<pc, request_data, stop_typing, typing_task, emissions, memory_data,
                   response, sent, chat_log, raised, update, profile, start, store_task>>
    /\ UNCHANGED <<queue_vars, text_vars, wizard_vars, tool_vars, check_vars>>

----------------------------------------------------------------------------
(* handle_clear_command of main.py and TelegramService.clear_user_history *)

CLEARED     == <<"CLEARED">>
CLEAR_ERROR == <<"CLEAR_ERROR">>

\* How clear_user_history can end: both stores cleared; the DELETE or its
\* commit raised (logged, nothing cleared); the rows deleted and the deletion
\* of the redis key raised (logged).
ClearOutcomes == {"ok", "db_error", "redis_error"}

\* DELETE FROM chat_history WHERE user_id = ...; commit
\* Faulty variant: only the newest row is deleted.
ClearUserHistoryNewestOnly(log, outcome) ==
    IF outcome = "db_error" \/ log = <<>> THEN log ELSE SubSeq(log, 1, Len(log) - 1)

ClearUserHistory(log, outcome) == IF outcome = "db_error" THEN log ELSE <<>>

\* redis_client.delete(key)
ClearCache(cache, outcome) == IF outcome = "ok" THEN <<>> ELSE cache

\* The session is opened and clear_user_history is awaited; the clearing of
\* the Mem0 memories that follows logs its own failures.
C_Clear ==
    /\ pc = "c_start"
    /\ \/ \E outcome \in ClearOutcomes :
            /\ chat_log' = ClearUserHistory(chat_log, outcome)
            /\ redis' = ClearCache(redis, outcome)
            /\ Log(IF outcome = "ok" THEN "clear_ok" ELSE "clear_logged_error")
            /\ pc' = "c_confirm"
       \/ /\ Log("session_raise")
          /\ pc' = "c_exc"
          /\ UNCHANGED <<chat_log, redis>>
    /\ UNCHANGED <<request_data, stop_typing, typing_task, emissions, memory_data,
                   response, sent, raised, update, profile, start, store_task>>
    /\ UNCHANGED <<queue_vars, text_vars, wizard_vars, tool_vars, check_vars>>

\* await send_message(chat_id, response)
C_Confirm ==
    /\ pc = "c_confirm"
    /\ \E outcome \in SendOutcomes :
         /\ sent' = sent \o Delivered(CLEARED, outcome)
         /\ Log(IF SendRaises(outcome) THEN "send_short_raise" ELSE "send_short_ok")
         /\ pc' = IF SendRaises(outcome) THEN "c_exc" ELSE "c_ret"
    /\ UNCHANGED <<request_data, stop_typing, typing_task, emissions, memory_data,
                   response, chat_log, redis, raised, update, profile, start, store_task>>
    /\ UNCHANGED <<queue_vars, text_vars, wizard_vars, tool_vars, check_vars>>

\* except Exception: the error is logged and the error message is sent; what
\* that send raises leaves the handler.
C_Except ==
    /\ pc = "c_exc"
    /\ \E outcome \in SendOutcomes :
         /\ sent' = sent \o Delivered(CLEAR_ERROR, outcome)
         /\ Log(IF SendRaises(outcome) THEN "send_apology_raise" ELSE "send_apology_ok")
         /\ raised' = SendRaises(outcome)
    /\ pc' = "c_ret"
    /\ UNCHANGED <<request_data, stop_typing, typing_task, emissions, memory_data,
                   response, chat_log, redis, update, profile, start, store_task>>
    /\ UNCHANGED <<queue_vars, text_vars, wizard_vars, tool_vars, check_vars>>

handle_clear_command == C_Clear \/ C_Confirm \/ C_Except

----------------------------------------------------------------------------
(* AstrologyTools: the class-level context and the prediction lookups *)

ToolNames ==
    {"today_prediction", "weekly_prediction", "current_month_prediction",
     "quarterly_prediction", "yearly_prediction", "love_prediction",
     "career_prediction", "wealth_prediction", "health_prediction",
     "wildcard_prediction", "daily_horoscope", "weekly_horoscope",
     "monthly_horoscope"}

\* What the POST of _make_request can do: answer 2xx with a JSON body, fail in
\* transport, answer with another status (raise_for_status raises), or answer
\* with a body that is no JSON (response.json() raises).
ApiOutcomes == {"json", "transport_error", "http_status", "not_json"}

\* _make_request: the error is logged and raised again.
MakeRequestRaises(api) == api # "json"

\* The birth data set_context can be handed: the fields of a user_context.
BirthData ==
    { [date_of_birth |-> D1, time_of_birth |-> T1, place_of_birth |-> P1],
      [date_of_birth |-> D2, time_of_birth |-> T1, place_of_birth |-> P1] }

NoToolCall == [tool |-> "none", context_set |-> FALSE, api |-> "none", kind |-> "none",
               text |-> <<>>]

\* _get_service_and_data raises ValueError.
ContextMissing == t_service = "None" \/ t_birth_data = <<>>

API_RESULT == <<"API_RESULT">>

\* The string of the except clause of a tool: 'Error getting <lookup>: <e>'.
ErrorString(tool, cause) == <<"Error getting", tool, cause>>

\* The body of a prediction tool: try: ... return str(result)
\* except Exception as e: ... return f"Error getting ...: {str(e)}"
\* Faulty variant: the except clause logs and re-raises.
ToolReturnReraise(tool, api) ==
    IF ContextMissing THEN [kind |-> "raise", text |-> <<"not initialized">>]
    ELSE IF MakeRequestRaises(api) THEN [kind |-> "raise", text |-> <<api>>]
    ELSE [kind |-> "str", text |-> API_RESULT]

ToolReturn(tool, api) ==
    IF ContextMissing THEN [kind |-> "str", text |-> ErrorString(tool, "not initialized")]
    ELSE IF MakeRequestRaises(api) THEN [kind |-> "str", text |-> ErrorString(tool, api)]
    ELSE [kind |-> "str", text |-> API_RESULT]

\* AstrologyTools.set_context
A_SetContext ==
    /\ \E service \in {"None", "service"}, data \in BirthData :
         /\ t_service' = service
         /\ t_birth_data' = <<data>>
    /\ UNCHANGED <<t_last, t_requests, t_lookup, turn_vars, queue_vars, text_vars,
                   wizard_vars, check_vars>>

\* One of the prediction tools is called by the tool-use loop.
A_CallTool ==
    /\ \E tool \in ToolNames, answer \in ApiOutcomes :
         LET api == IF ContextMissing THEN "none" ELSE answer
             ret == ToolReturn(tool, api)
         IN t_last' = [tool |-> tool, context_set |-> ~ContextMissing, api |-> api,
                       kind |-> ret.kind, text |-> ret.text]
    /\ UNCHANGED <<t_service, t_birth_data, t_requests, t_lookup, turn_vars, queue_vars,
                   text_vars, wizard_vars, check_vars>>

AstrologyTools == A_SetContext \/ A_CallTool

\* The calls of generate_response that can be in flight in one process.
Requests == 1..MaxRequests

NotCalled == [state |-> "idle", birth_data |-> <<>>]

NoLookup == [request |-> 0, birth_data |-> <<>>, own |-> <<>>]

\* generate_response of request r up to its model call: set_context with the
\* fields of the request's user_context, then the call is awaited.
R_SetContext(r) ==
    /\ t_requests[r].state = "idle"
    /\ \E data \in BirthData :
         /\ t_service' = "service"
         /\ t_birth_data' = <<data>>
         /\ t_requests' = [t_requests EXCEPT ![r] = [state |-> "model_call",
                                                     birth_data |-> <<data>>]]
    /\ UNCHANGED <<t_last, t_lookup, turn_vars, queue_vars, text_vars, wizard_vars,
                   check_vars>>

\* The model of request r has a prediction tool called: the tool reads the
\* class attributes and posts the birth data it finds there.
R_ToolCall(r) ==
    /\ t_requests[r].state = "model_call"
    /\ \E tool \in ToolNames, answer \in ApiOutcomes :
         LET api == IF ContextMissing THEN "none" ELSE answer
             ret == ToolReturn(tool, api)
         IN /\ t_last' = [tool |-> tool, context_set |-> ~ContextMissing, api |-> api,
                          kind |-> ret.kind, text |-> ret.text]
            /\ t_lookup' = [request |-> r,
                            birth_data |-> IF ContextMissing THEN <<>> ELSE t_birth_data,
                            own |-> t_requests[r].birth_data]
    /\ UNCHANGED <<t_service, t_birth_data, t_requests, turn_vars, queue_vars, text_vars,
                   wizard_vars, check_vars>>

\* The model call of request r is over and generate_response goes on to
\* return; the class attributes stay as they are.
R_Return(r) ==
    /\ t_requests[r].state = "model_call"
    /\ t_requests' = [t_requests EXCEPT ![r] = NotCalled]
    /\ UNCHANGED <<t_service, t_birth_data, t_last, t_lookup, turn_vars, queue_vars,
                   text_vars, wizard_vars, check_vars>>

concurrent_requests ==
    \E r \in Requests : R_SetContext(r) \/ R_ToolCall(r) \/ R_Return(r)

----------------------------------------------------------------------------
(* The specifications *)

\* The stores as earlier turns can have left them.
InitialLogs   == {<<>>, <<[role |-> "user", text |-> Q_HI]>>}
InitialCaches == {<<>>, <<Q_HI>>}

TurnIdle ==
    /\ pc = "idle"
    /\ request_data = NoItem
    /\ update = NoUpdate
    /\ profile = NoProfile
    /\ stop_typing = FALSE
    /\ typing_task = "none"
    /\ emissions = 0
    /\ memory_data = <<>>
    /\ response = <<>>
    /\ trace = <<>>
    /\ sent = <<>>
    /\ chat_log = <<>>
    /\ redis = <<>>
    /\ raised = FALSE
    /\ start = [chat_log |-> <<>>, redis |-> <<>>, item |-> NoItem]
    /\ store_task = "none"

QueueIdle ==
    /\ broker = <<>>
    /\ in_flight = <<>>
    /\ settled = <<>>
    /\ published = 0
    /\ is_processing = FALSE
    /\ q_pc = "idle"

WizardIdle ==
    /\ z_stage = END
    /\ user_data = NoUserData
    /\ z_profile0 = NoProfile
    /\ z_last = NoCall

CheckIdle ==
    /\ v_args = NoArgs
    /\ v_result = "none"

ToolIdle ==
    /\ t_service = "None"
    /\ t_birth_data = <<>>
    /\ t_last = NoToolCall
    /\ t_requests = [r \in Requests |-> NotCalled]
    /\ t_lookup = NoLookup

TextIdle ==
    /\ g_pc = "idle"
    /\ enable_thinking = FALSE
    /\ is_gpt_oss = FALSE
    /\ response_text = <<>>
    /\ cleaned = <<>>
    /\ model_calls = <<>>
    /\ gen_failures = <<>>
    /\ gen_raised = FALSE
    /\ reply_text = <<>>

InitCommon ==
    /\ QueueIdle
    /\ TextIdle
    /\ stop_typing = FALSE
    /\ typing_task = "none"
    /\ emissions = 0
    /\ memory_data = <<>>
    /\ response = <<>>
    /\ trace = <<>>
    /\ sent = <<>>
    /\ chat_log \in InitialLogs
    /\ redis \in InitialCaches
    /\ raised = FALSE
    /\ start = [chat_log |-> chat_log, redis |-> redis, item |-> request_data]
    /\ store_task = "none"
    /\ WizardIdle
    /\ ToolIdle
    /\ CheckIdle

InitWorker ==
    /\ pc = "w_start"
    /\ request_data \in {it \in WorkItems : WellFormedItem(it)}
    /\ update = NoUpdate
    /\ profile = NoProfile
    /\ InitCommon

InitDispatch ==
    /\ pc = "h_start"
    /\ request_data = NoItem
    /\ update \in Updates
    /\ profile \in Profiles
    /\ InitCommon

Init == InitWorker \/ InitDispatch

Next == process_request \/ handle_message \/ keep_typing \/ add_memory_safe

\* One turn of process_request or of handle_message.
Spec == Init /\ [][Next]_vars

\* The same under the scheduling of the event loop: a task that can take a
\* step takes it (every call a handler awaits returns or raises, and so does
\* every emission of the typing task).
SpecFair ==
    Spec /\ WF_vars(process_request) /\ WF_vars(handle_message) /\ WF_vars(keep_typing)

InitQueue == TurnIdle /\ QueueIdle /\ TextIdle /\ WizardIdle /\ ToolIdle /\ CheckIdle

NextQueue == Q_Publish \/ start_consumer

\* The queue and its consumer.
SpecQueue == InitQueue /\ [][NextQueue]_vars

InitText ==
    /\ TurnIdle
    /\ QueueIdle
    /\ WizardIdle
    /\ ToolIdle
    /\ CheckIdle
    /\ g_pc = "g_start"
    /\ enable_thinking \in BOOLEAN
    /\ is_gpt_oss \in BOOLEAN
    /\ response_text = <<>>
    /\ cleaned = <<>>
    /\ model_calls = <<>>
    /\ gen_failures = <<>>
    /\ gen_raised = FALSE
    /\ reply_text = <<>>

InitWizard ==
    /\ pc = "idle"
    /\ request_data = NoItem
    /\ update = NoUpdate
    /\ profile \in Profiles
    /\ stop_typing = FALSE
    /\ typing_task = "none"
    /\ emissions = 0
    /\ memory_data = <<>>
    /\ response = <<>>
    /\ trace = <<>>
    /\ sent = <<>>
    /\ chat_log = <<>>
    /\ redis = <<>>
    /\ raised = FALSE
    /\ start = [chat_log |-> <<>>, redis |-> <<>>, item |-> NoItem]
    /\ store_task = "none"
    /\ QueueIdle
    /\ TextIdle
    /\ WizardIdle
    /\ ToolIdle
    /\ CheckIdle

\* The wizard of one user, started any number of times.
SpecWizard == InitWizard /\ [][birth_details_conversation]_vars

NextText == generate_response \/ G_Deliver

\* One call of generate_response and the delivery of its result.
SpecText == InitText /\ [][NextText]_vars

InitTools == TurnIdle /\ QueueIdle /\ TextIdle /\ WizardIdle /\ ToolIdle /\ CheckIdle

\* The tools plugin of the process: contexts set and tools called in any order.
SpecTools == InitTools /\ [][AstrologyTools]_vars

\* Calls of generate_response that share the process and its tools plugin.
SpecRequests == InitTools /\ [][concurrent_requests]_vars

InitValidate ==
    /\ TurnIdle
    /\ QueueIdle
    /\ TextIdle
    /\ WizardIdle
    /\ ToolIdle
    /\ v_args \in ValidateArgs
    /\ v_result = "none"

\* validate_birth_data called once on a row.
SpecValidate == InitValidate /\ [][V_Validate]_vars

InitCache ==
    /\ pc = "k_ready"
    /\ request_data = NoItem
    /\ update = NoUpdate
    /\ profile = NoProfile
    /\ stop_typing = FALSE
    /\ typing_task = "none"
    /\ emissions = 0
    /\ memory_data = <<>>
    /\ response = <<>>
    /\ trace = <<>>
    /\ sent = <<>>
    /\ chat_log = <<>>
    /\ redis \in InitialCaches
    /\ raised = FALSE
    /\ start = [chat_log |-> chat_log, redis |-> redis, item |-> NoItem]
    /\ store_task = "none"
    /\ QueueIdle
    /\ TextIdle
    /\ WizardIdle
    /\ ToolIdle
    /\ CheckIdle

\* The cache of one user under a sequence of save_chat_to_redis calls.
SpecCache == InitCache /\ [][K_SaveChatToRedis]_vars

\* The stores as /clear can find them.
ClearLogs ==
    InitialLogs \cup {<<[role |-> "user", text |-> Q_HI], [role |-> "bot", text |-> REPLY_PLAIN]>>}
ClearCaches == InitialCaches \cup {<<Q_HI, REPLY_PLAIN>>}

InitClear ==
    /\ pc = "c_start"
    /\ request_data = NoItem
    /\ update = NoUpdate
    /\ profile = NoProfile
    /\ stop_typing = FALSE
    /\ typing_task = "none"
    /\ emissions = 0
    /\ memory_data = <<>>
    /\ response = <<>>
    /\ trace = <<>>
    /\ sent = <<>>
    /\ chat_log \in ClearLogs
    /\ redis \in ClearCaches
    /\ raised = FALSE
    /\ start = [chat_log |-> chat_log, redis |-> redis, item |-> NoItem]
    /\ store_task = "none"
    /\ QueueIdle
    /\ TextIdle
    /\ WizardIdle
    /\ ToolIdle
    /\ CheckIdle

InitSystem == InitWorker \/ InitDispatch \/ InitWizard \/ InitClear

\* A wizard handler runs when no other handler of the application does.
Z_Handler == pc = "idle" /\ birth_details_conversation

NextSystem == Next \/ Z_Handler \/ handle_clear_command

\* Every operation that touches the users row, the log or the cache: one
\* worker turn, one dispatcher turn, the wizard, or one /clear command.
SpecSystem == InitSystem /\ [][NextSystem]_vars

----------------------------------------------------------------------------
(* Properties of process_request and handle_message *)

WorkerRun == request_data # NoItem

Returned == pc \in {"w_ret", "h_ret"}

TypingStarted == Happened("typing_start")

ReplyAttempts == Count("send_reply_ok") + Count("send_reply_raise")

ApologyAttempts == Count("send_apology_ok") + Count("send_apology_raise")

GenerateCalls == Count("gen_ok") + Count("gen_raise")

\* C1: every presence loop that process_request or handle_message starts has
\* its stop event set and its keep_typing task finished when the handler
\* returns, on the success path and on every exception path.
C1_PresenceStoppedOnReturn ==
    Returned =>
        /\ typing_task \in {"none", "done"}
        /\ (TypingStarted => stop_typing /\ typing_task = "done")

\* C1 witness: process_request has returned through its exception path after
\* the loop emitted a typing signal.
C1_Witness ==
    /\ pc = "w_ret"
    /\ Happened("gen_raise")
    /\ emissions > 0
    /\ typing_task = "done"

ItemLacksRequired(it) ==
    \/ {"user_id", "chat_id", "message", "user_context"} \ it.keys # {}
    \/ CtxKeys \ it.ctx # {}

NoSideEffects ==
    /\ typing_task = "none"
    /\ \A i \in 1..Len(trace) : trace[i] = "logged_fatal"
    /\ sent = <<>>
    /\ chat_log = start.chat_log
    /\ redis = start.redis
    /\ request_data.memories = <<>>
    /\ ~raised

OnlyRequestIdMissing(it) ==
    /\ it.keys = TopKeys \ {"request_id"}
    /\ ~it.ctx_null
    /\ it.ctx = CtxKeys

\* C4 as stated: an item that has every other key but no request_id is dropped
\* on arrival, with no gateway call and no reply.
C4_RequestIdRequired ==
    (WorkerRun /\ OnlyRequestIdMissing(request_data)) => NoSideEffects

\* C4 as amended: request_id is optional; an item that lacks only request_id
\* and is no test message is processed like a complete one: the presence loop
\* is started, the memory and generation gateways are called and a send is
\* attempted before process_request returns.
C4_RequestIdOptional ==
    (/\ WorkerRun
     /\ OnlyRequestIdMissing(request_data)
     /\ ~IsTestMessage(request_data.message)
     /\ pc = "w_ret") =>
        /\ TypingStarted
        /\ GenerateCalls = 1
        /\ ReplyAttempts + ApologyAttempts >= 1

\* C4 witness: an item without request_id got its reply.
C4_Witness ==
    /\ pc = "w_ret"
    /\ OnlyRequestIdMissing(request_data)
    /\ Happened("send_reply_ok")
    /\ sent = <<response>>

\* C5: when the memory fetch raises or returns something that is no usable
\* object, process_request still calls generate_response exactly once, with an
\* empty digest, and a generated reply is then handed to send_message.
C5_MemoryFailureKeepsTurn ==
    (/\ WorkerRun
     /\ pc = "w_ret"
     /\ (Happened("mem_raise") \/ Happened("mem_invalid"))) =>
        /\ GenerateCalls = 1
        /\ request_data.memories = << <<>> >>
        /\ (Happened("gen_ok") => ReplyAttempts = 1 /\ trace[4] \in
                {"send_reply_ok", "send_reply_raise"})

\* C5 witness: the fetch raised and the reply was delivered.
C5_Witness ==
    /\ pc = "w_ret"
    /\ Happened("mem_raise")
    /\ Happened("send_reply_ok")
    /\ sent = <<response>>

AnyStepFailed ==
    \/ Happened("mem_raise") \/ Happened("gen_raise") \/ Happened("send_reply_raise")
    \/ Happened("session_raise")
    \/ Happened("db_user_logged_error") \/ Happened("db_bot_logged_error")
    \/ Happened("redis_user_logged_error") \/ Happened("redis_bot_logged_error")

TurnAborted ==
    Happened("gen_raise") \/ Happened("send_reply_raise") \/ Happened("session_raise")

\* C6 as stated: whichever of memory fetch, generation, reply delivery,
\* session opening or persistence fails, the presence loop is stopped, one
\* apology send is attempted and process_request returns normally.
C6_ApologyOnAnyFailure ==
    (WorkerRun /\ pc = "w_ret" /\ AnyStepFailed) =>
        /\ ~raised
        /\ typing_task = "done"
        /\ ApologyAttempts = 1

\* C6 as amended: process_request never raises; when generation, reply
\* delivery or session opening raises, the presence loop is stopped and exactly
\* one apology send is attempted; a failure of the memory fetch or of a
\* persistence write is caught where it occurs and causes no apology.
C6_NeverRaises ==
    (WorkerRun /\ pc = "w_ret") =>
        /\ ~raised
        /\ (TypingStarted => stop_typing /\ typing_task = "done")
        /\ ApologyAttempts = (IF TurnAborted THEN 1 ELSE 0)

\* C6 witness: the session could not be opened, the apology send failed too,
\* and process_request has returned.
C6_Witness ==
    /\ pc = "w_ret"
    /\ Happened("session_raise")
    /\ Happened("send_apology_raise")
    /\ ~raised

TurnWithoutFailure ==
    /\ WorkerRun
    /\ pc = "w_ret"
    /\ Happened("store_start")
    /\ ~AnyStepFailed

\* C7: after a turn with query q and reply r that met no failure, the cache
\* holds q followed by r as its two most recent entries.
C7_CacheHoldsExchange ==
    TurnWithoutFailure =>
        /\ Len(redis) >= 2
        /\ redis[Len(redis) - 1] = request_data.message
        /\ redis[Len(redis)] = response

LoggedRows ==
    (IF Happened("db_user_ok")
     THEN <<[role |-> "user", text |-> request_data.message]>> ELSE <<>>)
    \o (IF Happened("db_bot_ok") THEN <<[role |-> "bot", text |-> response]>> ELSE <<>>)

\* C8: a turn that reaches persistence appends to the durable log the user's
\* query and then the reply, each write having completed or been logged as
\* failed when process_request returns: exactly these two rows, in this
\* order, when neither write fails, and nothing on any other path.
C8_LogAppendsUserThenBot ==
    (WorkerRun /\ pc = "w_ret") =>
        IF Happened("session_ok")
        THEN /\ chat_log = start.chat_log \o LoggedRows
             /\ Count("db_user_ok") + Count("db_user_logged_error") = 1
             /\ Count("db_bot_ok") + Count("db_bot_logged_error") = 1
        ELSE chat_log = start.chat_log

\* C8 witness: both rows were written after an earlier row.
C8_Witness ==
    /\ pc = "w_ret"
    /\ Happened("db_user_ok") /\ Happened("db_bot_ok")
    /\ start.chat_log # <<>>
    /\ Len(chat_log) = Len(start.chat_log) + 2

\* The cache as the two save_chat_to_redis calls of the turn left it.
CacheAfterTurn ==
    SaveChatToRedis(
        SaveChatToRedis(start.redis, "user", request_data.message,
                        Happened("redis_user_ok")),
        "bot", response, Happened("redis_bot_ok"))

\* C13: the memory write-back is detached from the turn: once it is started,
\* whether it is still running, has stored, has failed or has raised, the only
\* message delivered is the reply, no apology is attempted, the log and the
\* cache are as the turn's own writes left them, and process_request goes on
\* to return without raising.
C13_StoreDetached ==
    (WorkerRun /\ store_task # "none") =>
        /\ pc \in {"w_finally", "w_fin_join", "w_ret"}
        /\ ~raised
        /\ sent = <<response>>
        /\ ApologyAttempts = 0
        /\ chat_log = start.chat_log \o LoggedRows
        /\ redis = CacheAfterTurn

\* C13 witness: process_request has returned while the store is still in
\* flight.
C13_Witness ==
    /\ pc = "w_ret"
    /\ WorkerRun
    /\ store_task = "running"
    /\ sent = <<response>>

MemoryCalls == Count("mem_ok") + Count("mem_raise") + Count("mem_invalid")

ProfilePassesCheck ==
    validate_birth_data(profile.date_of_birth, profile.time_of_birth,
                        profile.place_of_birth)

\* C20: handle_message calls the memory fetch and the generation only for a
\* stored profile that passes the completeness check (and a message that does
\* not carry the three fields); for a profile that does not pass it and a
\* message that does not carry the three fields, neither is called and the
\* request for the details is what handle_message sends.
C20_QueryNeedsCompleteProfile ==
    ~WorkerRun =>
        /\ (MemoryCalls + GenerateCalls > 0 =>
                ProfilePassesCheck /\ Happened("extract_partial"))
        /\ ((Happened("extract_partial") /\ ~ProfilePassesCheck) =>
                /\ MemoryCalls + GenerateCalls = 0
                /\ response = ASK_DETAILS
                /\ (pc = "h_ret" =>
                       Count("send_short_ok") + Count("send_short_raise") = 1))

\* C20 witness: a profile that holds three values, the date written
\* day-first, was asked for its details and no query was answered.
C20_Witness ==
    /\ pc = "h_ret"
    /\ profile.date_of_birth = D_SWAPPED
    /\ Happened("extract_partial")
    /\ sent = <<ASK_DETAILS>>
    /\ MemoryCalls + GenerateCalls = 0

\* C22: handling a free-text query in handle_message never awaits the
\* generation: for a query of a user whose profile is complete it publishes one
\* work item to the queue and returns; generate_response is awaited only in
\* process_request.
C22_DispatcherOnlyEnqueues ==
    ~WorkerRun =>
        /\ GenerateCalls = 0
        /\ ((pc = "h_ret" /\ Happened("extract_partial") /\ ProfilePassesCheck
              /\ ~Happened("logged_error")) => published = 1)

\* C23: when send_message raises for the reply, process_request persists
\* nothing and starts no memory write-back, makes exactly one attempt to send
\* the apology, and returns without raising whether or not that attempt fails.
C23_ReplyFailureEscalates ==
    (WorkerRun /\ Happened("send_reply_raise")) =>
        /\ pc \in {"w_exc", "w_exc_join", "w_apology", "w_finally", "w_fin_join", "w_ret"}
        /\ ~raised
        /\ ReplyAttempts = 1
        /\ chat_log = start.chat_log /\ redis = start.redis
        /\ store_task = "none"
        /\ ApologyAttempts = (IF pc \in {"w_finally", "w_fin_join", "w_ret"} THEN 1 ELSE 0)
        /\ (pc = "w_ret" =>
               /\ typing_task = "done"
               /\ trace[Len(trace)] \in {"send_apology_ok", "send_apology_raise"}
               /\ \E a \in SendOutcomes, b \in SendOutcomes :
                    /\ SendRaises(a)
                    /\ sent = Delivered(response, a) \o Delivered(WORKER_APOLOGY, b))

\* C23 witness: neither the reply nor the apology could be sent and
\* process_request has returned.
C23_Witness ==
    /\ pc = "w_ret"
    /\ Happened("send_reply_raise")
    /\ Happened("send_apology_raise")
    /\ sent = <<>>
    /\ ~raised

PersistenceFailed ==
    \/ Happened("session_raise")
    \/ Happened("db_user_logged_error") \/ Happened("db_bot_logged_error")
    \/ Happened("redis_user_logged_error") \/ Happened("redis_bot_logged_error")

\* C24: a failure of a write to the log or to the cache, or of the opening of
\* the database session, comes only after the reply was delivered, does not
\* make process_request raise, causes no apology, and does not keep the memory
\* write-back from being started.
C24_PersistenceFailureHarmless ==
    (WorkerRun /\ PersistenceFailed) =>
        /\ Happened("send_reply_ok")
        /\ ~raised
        /\ ApologyAttempts = 0
        /\ sent = <<response>>
        /\ (pc = "w_ret" => Happened("store_start") /\ store_task # "none")

\* C26: process_request never changes the work item: on every path the
\* request_data dictionary and its nested user_context hold the keys and the
\* values they held when the item was delivered.
C26_ItemNeverMutated ==
    WorkerRun => request_data = start.item

\* 'test' occurs in the message text, whatever the case of its letters.
MentionsTest(text) ==
    \E i \in 1..(Len(text) - 3) :
        /\ text[i] \in {"t", "T"} /\ text[i + 1] \in {"e", "E"}
        /\ text[i + 2] \in {"s", "S"} /\ text[i + 3] \in {"t", "T"}

\* C27: a work item whose message text contains 'test' (or 'batch_test'), in
\* any case, is dropped by process_request without side effects: no presence
\* loop, no gateway call, nothing sent, nothing persisted, no memory
\* write-back, no change of the item, and process_request returns.
C27_TestTrafficDropped ==
    (WorkerRun /\ MentionsTest(request_data.message)) =>
        /\ NoSideEffects
        /\ request_data = start.item
        /\ store_task = "none"
        /\ emissions = 0
        /\ pc \in {"w_start", "w_outer", "w_ret"}

\* C27 witness: a complete item with the message 'Test' was dropped.
C27_Witness ==
    /\ pc = "w_ret"
    /\ request_data.keys = TopKeys
    /\ ~request_data.ctx_null
    /\ request_data.ctx = CtxKeys
    /\ request_data.message = Q_TEST
    /\ trace = <<>>

MemoryEvents == {"mem_ok", "mem_raise", "mem_invalid"}

GenerateEvents == {"gen_ok", "gen_raise"}

ReplyEvents == {"send_reply_ok", "send_reply_raise"}

LogWriteEvents == {"db_user_ok", "db_user_logged_error", "db_bot_ok", "db_bot_logged_error"}

CacheWriteEvents ==
    {"redis_user_ok", "redis_user_logged_error", "redis_bot_ok", "redis_bot_logged_error"}

\* Every step of the second kind in the trace has a step of the first kind
\* before it.
Precedes(first, second) ==
    \A j \in DOMAIN trace :
        trace[j] \in second => \E i \in 1..(j - 1) : trace[i] \in first

\* C33: process_request performs its steps in a fixed order for every item it
\* does not drop: the memory fetch is over before generation starts,
\* generation is over before the stop event is set, the event is set and the
\* typing task has finished before the reply is sent, the reply is sent before
\* any log or cache write, and the memory write-back is started only after
\* the log writes and the cache writes.
C33_FixedOrder ==
    WorkerRun =>
        /\ Precedes(MemoryEvents, GenerateEvents)
        /\ (stop_typing => GenerateCalls > 0)
        /\ Precedes({"gen_ok"}, ReplyEvents)
        /\ (pc = "w_send" \/ ReplyAttempts > 0 => stop_typing /\ typing_task = "done")
        /\ Precedes({"send_reply_ok"}, {"session_ok", "session_raise"})
        /\ Precedes({"session_ok"}, LogWriteEvents)
        /\ Precedes({"db_bot_ok", "db_bot_logged_error"}, CacheWriteEvents)
        /\ Precedes({"db_user_ok", "db_user_logged_error"}, {"db_bot_ok", "db_bot_logged_error"})
        /\ Precedes({"redis_user_ok", "redis_user_logged_error"},
                    {"redis_bot_ok", "redis_bot_logged_error"})
        /\ Precedes({"redis_bot_ok", "redis_bot_logged_error"}, {"store_start"})

\* C33 witness: a turn went through every step, with the user turn refused by
\* the log, and the write-back was started last.
C33_Witness ==
    /\ WorkerRun
    /\ pc = "w_ret"
    /\ Len(trace) = 10
    /\ trace[3] = "gen_ok"
    /\ trace[4] = "send_reply_ok"
    /\ trace[6] = "db_user_logged_error"
    /\ trace[10] = "store_start"

\* C34: for each work item the conversation receives at most one message
\* from process_request, the reply or one apology: never a reply followed by
\* an apology, never two apologies, whatever fails in delivery or persistence.
C34_AtMostOneMessage ==
    WorkerRun =>
        /\ Len(sent) <= 1
        /\ (Happened("send_reply_ok") => ApologyAttempts = 0)
        /\ ApologyAttempts <= 1

Letter(c) ==
    c \in {"a", "b", "c", "d", "e", "h", "i", "l", "n", "o", "s", "t", "x", "T", "S", "E"}

\* 'test' stands in the text as a word of its own, not inside another word.
TestAsWord(text) ==
    \E i \in 1..(Len(text) - 3) :
        /\ text[i] \in {"t", "T"} /\ text[i + 1] \in {"e", "E"}
        /\ text[i + 2] \in {"s", "S"} /\ text[i + 3] \in {"t", "T"}
        /\ (i = 1 \/ ~Letter(text[i - 1]))
        /\ (i + 3 = Len(text) \/ ~Letter(text[i + 4]))

StructurallyValid(it) ==
    /\ it.keys = TopKeys
    /\ ~it.ctx_null
    /\ it.ctx = CtxKeys

\* C35: every structurally valid work item that is a genuine user query has
\* had at least one send attempt (the reply or an apology) when
\* process_request returns; a text that only holds the letters 'test' inside
\* another word, such as 'latest', is a genuine query.
C35_GenuineQueryAnswered ==
    (/\ WorkerRun
     /\ pc = "w_ret"
     /\ StructurallyValid(start.item)
     /\ ~TestAsWord(start.item.message)) =>
        ReplyAttempts + ApologyAttempts >= 1

\* C37: the durable log never holds the assistant turn of an exchange without
\* the user turn of the same exchange before it: after every run of
\* process_request, also when one of the two log writes fails, either both
\* turns were appended in order or neither was.
C37_BothTurnsOrNeither ==
    WorkerRun =>
        /\ (Happened("db_bot_ok") => Happened("db_user_ok"))
        /\ (pc = "w_ret" =>
               \/ chat_log = start.chat_log
               \/ chat_log = start.chat_log \o
                                <<[role |-> "user", text |-> request_data.message],
                                  [role |-> "bot", text |-> response]>>)

\* C39: process_request returns for every item, with the presence loop
\* finished, provided every call it awaits returns or raises; it does not wait
\* for the detached memory write-back (no progress of that task is assumed)
\* and it does not loop.
C39_ProcessRequestReturns ==
    WorkerRun ~> (WorkerRun /\ pc = "w_ret" /\ typing_task \in {"none", "done"})

\* C39 witness: process_request has returned from a turn whose presence loop
\* emitted and ended, while the memory write-back is still running.
C39_Witness ==
    /\ WorkerRun
    /\ pc = "w_ret"
    /\ typing_task = "done"
    /\ emissions > 0
    /\ store_task = "running"

----------------------------------------------------------------------------
(* Properties of start_consumer *)

\* C2: a delivered item is acknowledged only if the handler returned without
\* raising; an item whose handler raised is not acknowledged (it stays to be
\* delivered again).
C2_AckOnlyAfterReturn ==
    \A i \in 1..Len(settled) :
        settled[i].how = "ack" => settled[i].outcome = "return"

\* C14: within one consumer at most one item is being handled at any time, the
\* handler of an item is invoked only after the handler of every item
\* delivered before it has returned, and items are handled in delivery order.
C14_OneAtATime ==
    /\ Len(in_flight) <= 1
    /\ (q_pc = "processing" <=> in_flight # <<>>)
    /\ \A i, j \in 1..Len(settled) : i < j => settled[i].id < settled[j].id
    /\ \A i \in 1..Len(in_flight) :
         /\ \A j \in 1..Len(settled) : settled[j].id < in_flight[i].id
         /\ \A j \in 1..Len(broker) : in_flight[i].id < broker[j].id

\* C14 witness: the third item is being handled after the handlers of the
\* first two have returned, one of them by raising.
C14_Witness ==
    /\ q_pc = "processing"
    /\ Len(settled) = 2
    /\ settled[1].outcome = "raise"
    /\ in_flight # <<>>
    /\ in_flight[1].id = 3

LastSettled == settled[Len(settled)]

\* C36: the consumer loop survives bad items: when the handler raises for an
\* item, or the body of an item is not valid JSON, start_consumer goes on
\* iterating (it does not stop and is_processing stays set), so that the next
\* delivered item is passed to the handler; a body that is not valid JSON
\* never reaches the handler.
C36_LoopSurvivesBadItems ==
    [][/\ (/\ Len(settled') > Len(settled)
           /\ settled'[Len(settled')].outcome \in {"raise", "not_json"}) =>
               /\ q_pc' = "iterating"
               /\ is_processing'
               /\ in_flight' = <<>>
               /\ broker' = broker
       /\ (/\ in_flight # <<>>
           /\ in_flight[1].body = "not_json"
           /\ Len(settled') > Len(settled)) =>
               settled'[Len(settled')].outcome \in {"not_json", "cancelled"}
       /\ (q_pc = "iterating" /\ broker # <<>> /\ in_flight' # in_flight) =>
               in_flight' = <<Head(broker)>> /\ q_pc' = "processing"]_vars

\* C36 witness: the handler raised for the first item, the second item was no
\* JSON, and the handler has returned for the third.
C36_Witness ==
    /\ Len(settled) = 3
    /\ settled[1].outcome = "raise"
    /\ settled[2].outcome = "not_json"
    /\ settled[3].outcome = "return"
    /\ q_pc = "iterating"

----------------------------------------------------------------------------
(* Properties of generate_response *)

\* C9: the text process_request sends never contains '<think>' or '</think>',
\* whatever the model put out.
C9_NoDelimiterInReply ==
    g_pc = "g_sent" => ~HasDelimiter(reply_text)

\* s is made of the first whole sentences of t and ends at a sentence boundary.
IsSentencePrefix(s, t) ==
    /\ s # <<>>
    /\ Len(s) <= Len(t)
    /\ s = SubSeq(t, 1, Len(s))
    /\ s[Len(s)] = "."

\* C10: every text generate_response returns is at most 400 characters long,
\* and when the cleaned output exceeded 400 characters the returned text is a
\* prefix of it made of whole sentences.
C10_ReplyWithinCeiling ==
    g_pc = "g_returned" =>
        /\ TextLen(response_text) <= MaxReplyLen
        /\ (TextLen(cleaned) > MaxReplyLen => IsSentencePrefix(response_text, cleaned))

\* An exception reached the outer handler of generate_response.
GenAborted ==
    \E i \in 1..Len(gen_failures) : gen_failures[i] \in {"setup", "direct", "no_tools"}

RetryFailed == \E i \in 1..Len(gen_failures) : gen_failures[i] = "retry"

RetryCalls == Cardinality({i \in 1..Len(model_calls) : model_calls[i] = "retry"})

\* The text the fallback check looks at: the cleaned output after truncation.
CheckedText == Truncate(cleaned)

\* C11 as stated: whenever the cleaned output is empty or shorter than 20
\* characters, exactly one further model call is made, with the simplified
\* prompt and with tool use disabled, before the static message is used.
C11_RetryWheneverShort ==
    (g_pc = "g_returned" /\ ~GenAborted /\ TooShort(CheckedText)) =>
        /\ RetryCalls = 1
        /\ \A i \in 1..Len(model_calls) :
             model_calls[i] = "retry" => ~CallSettings(model_calls[i]).tools

\* C11 as amended: the retry is made exactly when the cleaned output is empty
\* or shorter than 20 characters, thinking is enabled in the settings and the
\* model is not gpt-oss; it is made once, with the simplified prompt and with
\* tool use still enabled; in every other case of a short output, and when the
\* retry raises or is short again, the static message is returned.
C11_RetryOnlyWhenThinking ==
    (g_pc = "g_returned" /\ ~GenAborted) =>
        /\ RetryCalls = (IF TooShort(CheckedText) /\ enable_thinking /\ ~is_gpt_oss
                         THEN 1 ELSE 0)
        /\ \A i \in 1..Len(model_calls) :
             model_calls[i] = "retry" =>
                /\ i = Len(model_calls)
                /\ CallSettings(model_calls[i]) =
                     [tools |-> TRUE, prompt |-> "respond_directly"]
        /\ (TooShort(CheckedText) /\ (RetryCalls = 0 \/ RetryFailed) =>
                response_text = FALLBACK)
        /\ (~TooShort(CheckedText) => response_text = CheckedText)
        /\ ~TooShort(response_text)

\* C11 witness: the first output was short, the retry was made and its output
\* is what generate_response returns.
C11_Witness ==
    /\ g_pc = "g_returned"
    /\ TooShort(CheckedText)
    /\ model_calls = <<"tools", "retry">>
    /\ gen_failures = <<>>
    /\ response_text = <<"x19", ".">>

\* C12: generate_response never raises; when an exception reaches its outer
\* handler (the set-up, the direct call, or the call with tools and the call
\* without both raised) it returns the static apology, and when the retry
\* raises it returns the static fallback message.
C12_GenerateNeverRaises ==
    g_pc \in {"g_returned", "g_sent"} =>
        /\ ~gen_raised
        /\ response_text # <<>>
        /\ (GenAborted => response_text = GEN_APOLOGY)
        /\ (RetryFailed => response_text = FALLBACK)

\* C12 witness: the call with tools and the call without both raised and the
\* apology was returned.
C12_Witness ==
    /\ g_pc = "g_returned"
    /\ gen_failures = <<"tools", "no_tools">>
    /\ response_text = GEN_APOLOGY

\* C40: generate_response always returns a non-empty text of at least 20
\* characters: whenever the cleaned and truncated model output is empty or
\* has fewer than 20 characters, what is returned is the static message,
\* unless a retry was made, did not raise and gave a text of at least 20
\* characters; a short result of the retry is replaced as well.
C40_ReplyNeverShort ==
    g_pc \in {"g_returned", "g_sent"} =>
        /\ response_text # <<>>
        /\ TextLen(response_text) >= 20
        /\ (~GenAborted /\ TextLen(CheckedText) < 20 =>
               \/ response_text = FALLBACK
               \/ /\ RetryCalls = 1
                  /\ ~RetryFailed)

\* C40 witness: the first output had 19 characters, the retry was made without
\* an error and was short again, and the static message was returned.
C40_Witness ==
    /\ g_pc = "g_returned"
    /\ cleaned = <<"x19">>
    /\ model_calls = <<"tools", "retry">>
    /\ gen_failures = <<>>
    /\ response_text = FALLBACK

----------------------------------------------------------------------------
(* Properties of the wizard *)

\* The inputs of DateInputs that are a real calendar date written YYYY-MM-DD
\* (surrounding whitespace aside), and the date each of them denotes.
ValidDateInputs == {D1, D3, D_PADDED}
DateOf(input) == IF input = D3 THEN D3 ELSE D1

\* The inputs of TimeInputs of the form HH:MM with hour in 0..23 and minute in
\* 0..59 (surrounding whitespace aside), and the time each of them denotes.
ValidTimeInputs == {T1, T2, T3, T_PADDED}
TimeOf(input) == IF input = T2 THEN T2 ELSE IF input = T3 THEN T3 ELSE T1

\* What a send of text can have left in the conversation.
Attempted(text) == {<<text>>, <<TOO_MUCH_INFO>>, <<>>}

RowOf(date, time, place) ==
    [exists |-> TRUE, date_of_birth |-> date, time_of_birth |-> time,
     place_of_birth |-> place]

HasComma(text) == \E i \in 1..Len(text) : text[i] = ","

C18_CancelRestoresProfile ==
    (z_last.handler = "cancel" /\ ~z_last.raised) =>
        /\ z_stage = END
        /\ user_data = NoUserData
        /\ profile = z_profile0

\* C19: when the wizard ends with the values (date, time, place), the profile
\* is the one the direct-extraction shortcut of handle_message writes for the
\* same three values, and it passes the completeness check.
C19_WizardEqualsShortcut ==
    (z_last.handler = "place" /\ ~z_last.raised /\ z_stage = END) =>
        /\ profile =
             ShortcutProfile([z_last.profile0 EXCEPT !.exists = TRUE],
                             [kind |-> "dict",
                              date_of_birth |-> z_last.user_data0.birth_date,
                              time_of_birth |-> z_last.user_data0.birth_time,
                              place_of_birth |-> Strip(z_last.input)])
        /\ validate_birth_data(profile.date_of_birth, profile.time_of_birth,
                               profile.place_of_birth)

\* C19 witness: a user without a row went through the wizard.
C19_Witness ==
    /\ z_last.handler = "place"
    /\ ~z_last.raised
    /\ z_stage = END
    /\ z_last.profile0 = NoProfile
    /\ profile = RowOf(D3, T3, P1)

\* C25: no call of a wizard handler (start_birth_details_wizard,
\* receive_birth_date, receive_birth_time, receive_birth_place, cancel_wizard)
\* raises: a failed send or a failed commit is caught inside the handler, which
\* returns a wizard state.
C25_WizardHandlersCatch ==
    z_last.handler # "none" => ~z_last.raised

StageSteps ==
    {<<END, BIRTH_DATE>>, <<BIRTH_DATE, BIRTH_TIME>>, <<BIRTH_TIME, BIRTH_PLACE>>,
     <<BIRTH_PLACE, END>>}

\* C38: the wizard stage only moves forward, one stage at a time (date, time,
\* place, end; /cancel ends the wizard from any stage); the session holds
\* nothing when a wizard starts, holds a date that passed its validator from
\* the time stage on and a time that passed its validator in the place stage;
\* and receive_birth_place writes to the profile only in the place stage, and
\* then exactly the date and the time of the session and the place it checked.
C38_StageForwardOnly ==
    /\ [](z_stage = END => user_data.birth_date = <<>> /\ user_data.birth_time = <<>>)
    /\ [](z_stage \in {BIRTH_TIME, BIRTH_PLACE} => user_data.birth_date \in {D1, D3})
    /\ [](z_stage = BIRTH_PLACE => user_data.birth_time \in {T1, T2, T3})
    /\ [][/\ (z_stage' # z_stage =>
                 \/ z_last'.handler = "cancel" /\ z_stage' = END
                 \/ z_last'.handler # "cancel" /\ <<z_stage, z_stage'>> \in StageSteps)
          /\ (profile' # profile =>
                 /\ z_last'.handler = "place"
                 /\ z_stage = BIRTH_PLACE
                 /\ user_data.birth_date \in {D1, D3}
                 /\ user_data.birth_time \in {T1, T2, T3}
                 /\ HasComma(z_last'.input)
                 /\ profile'.date_of_birth = user_data.birth_date
                 /\ profile'.time_of_birth = user_data.birth_time
                 /\ profile'.place_of_birth \in {P1, P2})]_vars

\* C38 witness: receive_birth_place has written the date 2000-02-29 and the
\* time 23:59 of the session with the place ',' over another profile and the
\* wizard has ended.
C38_Witness ==
    /\ z_last.handler = "place"
    /\ z_last.stage0 = BIRTH_PLACE
    /\ z_last.user_data0.birth_date = D3
    /\ z_last.user_data0.birth_time = T2
    /\ z_last.profile0 # profile
    /\ profile = RowOf(D3, T2, P2)
    /\ z_stage = END

----------------------------------------------------------------------------
(* Properties of the log and of the cache *)

\* Every save of the sequence succeeded, and the saves are a user message and
\* the reply to it, in turn.
WholeExchanges ==
    /\ Len(trace) % 2 = 0
    /\ \A i \in 1..Len(trace) :
         /\ trace[i].ok
         /\ trace[i].message_type = (IF i % 2 = 1 THEN "user" ELSE "bot")

ExchangePairs ==
    [i \in 1..(Len(trace) \div 2) |-> <<trace[2 * i - 1].message, trace[2 * i].message>>]

IsPrefix(s, t) == Len(s) <= Len(t) /\ s = SubSeq(t, 1, Len(s))

\* C29 as stated: no step of a worker turn, of a dispatcher turn, of the wizard
\* or of the /clear command removes or alters a row of the log.
C29_LogAppendOnly == [][IsPrefix(chat_log, chat_log')]_vars

\* C29 as amended: a worker turn, a dispatcher turn and the wizard only append
\* rows to the log; /clear is the one operation that removes rows: it deletes
\* every row of the user, or, when its DELETE fails, none.
C29_AppendOnlyExceptClear ==
    [][IF pc = "c_start" THEN chat_log' \in {chat_log, <<>>}
       ELSE IsPrefix(chat_log, chat_log')]_vars

\* C29 witness: /clear has emptied a log of two rows.
C29_Witness ==
    /\ pc = "c_ret"
    /\ Len(start.chat_log) = 2
    /\ chat_log = <<>>
    /\ sent = <<CLEARED>>

----------------------------------------------------------------------------
(* Properties of the prediction tools *)

\* C30: every prediction tool returns a string and never raises: when the
\* tool context was never set, or the API call fails in transport, answers
\* with a status that is no 2xx or answers with a body that is no JSON, the
\* tool returns an error string that names the lookup, and makes no API call
\* without a context; otherwise it returns the API's answer as a string.
C30_ToolsReturnStrings ==
    t_last.tool # "none" =>
        /\ t_last.kind = "str"
        /\ (~t_last.context_set =>
               /\ t_last.api = "none"
               /\ t_last.text = <<"Error getting", t_last.tool, "not initialized">>)
        /\ (t_last.context_set =>
               /\ t_last.api \in ApiOutcomes
               /\ t_last.text = (IF t_last.api = "json" THEN API_RESULT
                                  ELSE <<"Error getting", t_last.tool, t_last.api>>))

\* C30 witness: wildcard_prediction got a body that is no JSON and returned
\* its error string.
C30_Witness ==
    /\ t_last.tool = "wildcard_prediction"
    /\ t_last.context_set
    /\ t_last.api = "not_json"
    /\ t_last.kind = "str"
    /\ t_last.text = <<"Error getting", "wildcard_prediction", "not_json">>

\* C32: when calls of generate_response for different users are in flight at
\* the same time, every prediction lookup issued on behalf of one call sends
\* the birth data of that call, never the birth data set by another.
C32_NoCrossRequestLeak ==
    t_lookup.request # 0 => t_lookup.birth_data = t_lookup.own

----------------------------------------------------------------------------
(* Properties of validate_birth_data *)

\* The check receive_birth_date makes on the text it was sent.
WizardAcceptsDate(text) ==
    LET date_text == Strip(text)
    IN FullMatchDate(date_text) /\ StrptimeOk(date_text)

\* The check receive_birth_time makes on the text it was sent.
WizardAcceptsTime(text) ==
    LET time_text == Strip(text)
    IN FullMatchTime(time_text) /\ TimeInRange(time_text)

\* C21: validate_birth_data accepts a (date, time, place) triple if and only
\* if the date passes the date check of the wizard (YYYY-MM-DD and a real
\* date), the time passes its time check (HH:MM, hour 0..23, minute 0..59) and
\* the place contains a comma.
C21_ValidateAgreesWithWizard ==
    v_result # "none" =>
        (v_result = "True" <=>
            /\ WizardAcceptsDate(v_args.date_str)
            /\ WizardAcceptsTime(v_args.time_str)
            /\ HasComma(v_args.place_str))

----------------------------------------------------------------------------
(* Properties of keep_typing *)

LoopRunning == typing_task \notin {"none", "done"}

\* C31: once the stop event of a presence loop is set, keep_typing starts no
\* new emission, a loop that is waiting between emissions can only exit, a loop
\* in the middle of an emission goes on to exit once the emission has returned,
\* and the task terminates; while the event is not set, an emission that
\* failed leaves the loop running.
C31_StopEndsLoop ==
    /\ [][/\ (stop_typing => emissions' = emissions)
          /\ (stop_typing /\ typing_task # typing_task' =>
                 \/ typing_task = "emitting" /\ typing_task' \in {"waiting", "waiting_after_error"}
                 \/ typing_task # "emitting" /\ typing_task' = "done")
          /\ (~stop_typing /\ typing_task = "emitting" /\ typing_task # typing_task' =>
                 typing_task' \in {"waiting", "waiting_after_error"})
          /\ (~stop_typing /\ typing_task = "waiting_after_error" =>
                 typing_task' \in {"waiting_after_error", "loop"})]_vars
    /\ ((stop_typing /\ LoopRunning) ~> (typing_task = "done"))

\* C31 witness: the stop event was set in the middle of an emission, the
\* emission has returned with an error, and the loop is about to exit.
C31_Witness ==
    /\ stop_typing
    /\ typing_task = "waiting_after_error"
    /\ emissions > 0

====
